---- MODULE Spec2Model ----
(***************************************************************************)
(* A model of the energy-analysis pipeline: the HTTP retry client          *)
(* (_get_with_backoff), the weather and energy fetchers with their paging  *)
(* and their tables, the per-city merge and clean-up of process_city_data, *)
(* the quality report, the loop of process_all_cities, the step            *)
(* orchestrator of pipeline.main and the command-line entrypoints.         *)
(***************************************************************************)
EXTENDS Integers, Sequences, FiniteSets, TLC

(***************************************************************************)
(* Bounds of the model.                                                    *)
(***************************************************************************)
\* the largest max_retries a caller of the retry client passes
MaxRetriesArg == 4
\* the largest backoff_factor a caller of the retry client passes
MaxBackoffArg == 2
\* the number of cities of config["cities"]
NumCities == 2
\* the largest number of weather pages the upstream serves for one city
MaxPages == 2
\* the largest number of rows of a raw weather file and of a raw energy file
MaxWeatherRows == 2
MaxEnergyRows == 2
\* the largest number of rows of a batch handed to the quality report
MaxBatchRows == 2
\* the largest `days` a fetcher is called with in the table specifications
MaxDays == 2
\* the largest number of weather records fetched for one city
MaxReadings == 4
\* the largest number of records of one energy response
MaxEnergyRecords == 2
MaxAnalysisRows == 2

(***************************************************************************)
(* Program constants.                                                      *)
(***************************************************************************)
\* def _get_with_backoff(..., max_retries=3, backoff_factor=1)
DefaultMaxRetries == 3
DefaultBackoffFactor == 1
\* fetch_weather_data: limit = 1000
PageLimit == 1000
\* process_city_data: start_date = today - timedelta(days=89)
WindowDays == 89
\* def fetch_weather_data(days=90), def fetch_energy_data(days=90)
DefaultDays == 90

VARIABLES
    \* ---- one call of _get_with_backoff ----
    rstate,          \* "idle", "running", "returned", "raised", "returned_none"
    max_retries,     \* the call's max_retries argument
    backoff_factor,  \* the call's backoff_factor argument
    attempt,         \* the loop variable of `for attempt in range(1, max_retries + 1)`
    outcomes,        \* the outcome of every requests.get issued by the call, in order
    sleeps,          \* the argument of every time.sleep of the call, in order
    ret,             \* the response returned or the exception raised by the call
    \* ---- the fetcher process (run_fetcher.py, fetch_last_90_days) ----
    fpc,             \* "start", "weather" (in the paging loop), "pivot" (the paging
                     \* loop was left by a break), "energy", "merge", "exited"
    city,            \* index of the city of the running `for city in config["cities"]`
    offset,          \* fetch_weather_data: offset
    all_records,     \* fetch_weather_data: all_records, as the pages it was extended by
    offsets,         \* the "offset" parameter of every page request of the city, in order
    records,         \* fetch_weather_data: len(records) of the last page, -1 before it
    requested,       \* <<source, city>> for which this run issued a request
    files,           \* files[source][city]: the city's raw CSV: "none", or written by
                     \* an earlier run ("old"), or written by this run ("new")
    log,             \* the per-city log records of this run: <<level, source, city>>
    raised,          \* the exception that left fetch_last_90_days, "none" if none
    exit_code,       \* the exit status of the process, -1 while it runs
    combined,        \* the tables merge_city_files returned: combined[source] holds
                     \* <<city, file>> for every raw CSV it concatenated
    upstream,        \* "finite": the weather API serves a full page for fewer than
                     \* MaxPages offsets of a city; "endless": for every offset
    \* ---- the orchestrator (src/pipeline.py main) and the entrypoints ----
    ppc,             \* "start", "steps", "dashboard", "launch", "done", "entry"
    step,            \* index into `steps` of the next step of main's loop
    started,         \* the names of the steps run_step was called for, in order
    rcs,             \* result.returncode of each of them
    printed,         \* what run_step and main printed, in order
    logged,          \* the level of the record each run_step call logged for the outcome
    main_exit,       \* exit status of the process that ran pipeline.main, -1 while it runs
    entry,           \* the entrypoint script that ran: its name, failure and exit status
    \* ---- one call of process_city_data (src/data_processor.py) ----
    today,           \* datetime.today().date(), as a day number
    weather_in,      \* the rows of the CSV at weather_path, in file order
    energy_in,       \* the rows of the CSV at energy_path, in file order
    energy_col,      \* the name of the energy column of the CSV at energy_path
    pstate,          \* process_city_data: "idle", "ready", "done" (returned
                     \* cleaned), "raised"; generate_data_quality_report called
                     \* on its own: "report", "reported", "report_raised"
    merged,          \* the joined batch handed to generate_data_quality_report
    report,          \* the rows written to <city>_quality_report.csv
    cleaned,         \* the rows written to <city>_cleaned.csv
    perr,            \* the exception that left the call, "none" if none
    \* ---- one run of process_all_cities (src/data_processor.py) ----
    astate,          \* "idle", "loop", "done" (returned), "raised"
    afile,           \* index of weather_file in `cities`, the listing of raw/weather
    acount,          \* process_all_cities: count
    alog,            \* the records logged by the run, in order
    acleaned,        \* acleaned[f]: the number of rows of the cleaned CSV written
                     \* for file f by this run, -1 if none was written
    aerr,            \* the exception that left process_all_cities, "none" if none
    \* ---- one city's iteration of a fetcher, from the records to the CSV ----
    days,            \* the `days` argument of fetch_weather_data / fetch_energy_data
    readings,        \* fetch_weather_data: the records of all_records, in order
    data,            \* fetch_energy_data: data, the records of the response
    tstate,          \* "idle", "ready", "saved", "nodata" (warning, continue), "failed"
    csv,             \* the rows of the city's CSV written by the iteration
    tlog,            \* the records logged by the iteration, in order
    \* ---- the analysis engine (src/analysis.py) ----
    merged_data,     \* the rows of merged_data.csv as they were read
    df,              \* the DataFrame handed to the analysis functions: the dtype of
                     \* its date column, its columns and its rows
    ran,             \* the analysis functions that were called on df
    results          \* the table each function returned, Null before its call

rvars == <<rstate, max_retries, backoff_factor, attempt, outcomes, sleeps, ret>>

fvars == <<fpc, city, offset, all_records, offsets, records, requested, files, log, raised,
          exit_code, combined, upstream>>

pvars == <<ppc, step, started, rcs, printed, logged, main_exit, entry>>

dvars == <<today, weather_in, energy_in, energy_col, pstate, merged, report, cleaned, perr>>

avars == <<astate, afile, acount, alog, acleaned, aerr>>

tvars == <<days, readings, data, tstate, csv, tlog>>

nvars == <<merged_data, df, ran, results>>

vars == <<rstate, max_retries, backoff_factor, attempt, outcomes, sleeps, ret,
          fpc, city, offset, all_records, offsets, records, requested, files, log, raised,
          exit_code, combined, upstream,
          ppc, step, started, rcs, printed, logged, main_exit, entry,
          today, weather_in, energy_in, energy_col, pstate, merged, report, cleaned, perr,
          astate, afile, acount, alog, acleaned, aerr,
          days, readings, data, tstate, csv, tlog,
          merged_data, df, ran, results>>

(***************************************************************************)
(* The HTTP retry client, src/src/data_fetcher.py:36-56.                   *)
(***************************************************************************)
\* The HTTP status codes the upstream answers with.
Statuses == {200, 400, 404, 429, 499, 500, 503, 599}

\* What one requests.get can do: answer with a status code, or raise.
\* "HTTPErrorNoResponse" is an HTTPError whose e.response is None.
UpstreamBehaviours ==
    [kind : {"response"}, status : Statuses]
      \cup [kind : {"HTTPErrorNoResponse", "ConnectionError", "Timeout", "Exception"},
            status : {0}]

NoOutcome == [exc |-> "unset", status |-> 0]

\* resp.raise_for_status(): raises HTTPError for a 4xx or 5xx status.
RaiseForStatus(status) == 400 <= status /\ status < 600

\* The outcome of lines 39-40 (requests.get, then raise_for_status) for one
\* upstream behaviour: exc = "none" is a response that passed raise_for_status;
\* status = 0 stands for "no status" (e.response is None).
GetOutcome(u) ==
    IF u.kind = "response"
    THEN IF RaiseForStatus(u.status)
         THEN [exc |-> "HTTPError", status |-> u.status]
         ELSE [exc |-> "none", status |-> u.status]
    ELSE IF u.kind = "HTTPErrorNoResponse"
         THEN [exc |-> "HTTPError", status |-> 0]
         ELSE [exc |-> u.kind, status |-> 0]

\* A mutant of ExceptClause: the second clause catches every Exception.
ExceptClause_CatchAll(o) ==
    IF o.exc = "HTTPError" THEN "HTTPError" ELSE "RequestException"

\* Which except clause of the try statement handles a raised exception:
\* `except HTTPError` (line 42) comes first, then `except RequestException`
\* (line 50); any other exception is not caught and leaves the function.
ExceptClause(o) ==
    IF o.exc = "HTTPError" THEN "HTTPError"
    ELSE IF o.exc \in {"ConnectionError", "Timeout"} THEN "RequestException"
    ELSE "uncaught"

\* A mutant of HandleHTTPError: every HTTP error status is retried.
HandleHTTPError_RetryAll(status, att, mr) ==
    IF status # 0 /\ att < mr THEN "retry" ELSE "raise"

\* Lines 43-49: an HTTPError is retried when its status is a 5xx and attempts
\* are left, and re-raised otherwise.
HandleHTTPError(status, att, mr) ==
    IF status # 0 /\ 500 <= status /\ status < 600 /\ att < mr
    THEN "retry" ELSE "raise"

\* A mutant of HandleRequestException: the final `raise` is missing, the
\* except block ends and the loop goes on.
HandleRequestException_NoRaise(att, mr) ==
    IF att < mr THEN "retry" ELSE "swallow"

\* Lines 51-56: any other RequestException is retried while attempts are left
\* and re-raised on the last attempt.
HandleRequestException(att, mr) ==
    IF att < mr THEN "retry" ELSE "raise"

\* What the body of the loop does with the outcome of attempt att.
Handle(o, att, mr) ==
    IF o.exc = "none" THEN "return"
    ELSE IF ExceptClause(o) = "HTTPError" THEN HandleHTTPError(o.status, att, mr)
    ELSE IF ExceptClause(o) = "RequestException" THEN HandleRequestException(att, mr)
    ELSE "raise"

RECURSIVE Pow2(_)
Pow2(n) == IF n <= 0 THEN 1 ELSE 2 * Pow2(n - 1)

Wait_Linear(bf, att) == bf * att

\* Lines 45 and 52: wait = backoff_factor * (2 ** (attempt - 1)).
Wait(bf, att) == bf * Pow2(att - 1)

\* The call _get_with_backoff(url, params, headers, mr, bf) begins.
GetWithBackoffCall(mr, bf) ==
    /\ rstate = "idle"
    /\ rstate' = "running"
    /\ max_retries' = mr
    /\ backoff_factor' = bf
    /\ attempt' = 0
    /\ outcomes' = <<>>
    /\ sleeps' = <<>>
    /\ ret' = NoOutcome

\* One iteration of the for loop (lines 37-56) with upstream behaviour u.
Attempt(u) ==
    /\ rstate = "running"
    /\ attempt < max_retries
    /\ LET att == attempt + 1
           o   == GetOutcome(u)
           h   == Handle(o, att, max_retries)
       IN /\ attempt' = att
          /\ outcomes' = Append(outcomes, o)
          /\ sleeps' = IF h = "retry"
                       THEN Append(sleeps, Wait(backoff_factor, att))
                       ELSE sleeps
          /\ rstate' = CASE h = "return" -> "returned"
                         [] h = "raise"  -> "raised"
                         [] OTHER        -> "running"
          /\ ret' = IF h \in {"return", "raise"} THEN o ELSE ret
    /\ UNCHANGED <<max_retries, backoff_factor>>

\* range(1, max_retries + 1) is used up: the function ends without a return
\* statement, which returns None.
LoopExhausted ==
    /\ rstate = "running"
    /\ attempt >= max_retries
    /\ rstate' = "returned_none"
    /\ UNCHANGED <<max_retries, backoff_factor, attempt, outcomes, sleeps, ret>>

RetryIdle ==
    /\ rstate = "idle"
    /\ max_retries = DefaultMaxRetries
    /\ backoff_factor = DefaultBackoffFactor
    /\ attempt = 0
    /\ outcomes = <<>>
    /\ sleeps = <<>>
    /\ ret = NoOutcome

(***************************************************************************)
(* The inputs of process_city_data: tables of rows.                        *)
(***************************************************************************)
\* A cell of a table: <<v>> holds the number v, <<>> is a missing value (NaN).
Null == <<>>
Val(v) == <<v>>
IsNull(x) == x = <<>>

\* The day number of the run.
RunDay == 100

\* The dates of the input files: the day before the 90-day window, which the
\* code drops before it reads any value, and the first and last day of the
\* window.
OldDate == RunDay - WindowDays - 1
WindowDates == {RunDay - WindowDays, RunDay}

WeatherRows ==
    {[date |-> d, tmax_f |-> t[1], tmin_f |-> t[2]] :
        d \in WindowDates,
        t \in {<<Val(70), Val(60)>>, <<Null, Val(60)>>, <<Val(70), Null>>}}
      \cup {[date |-> OldDate, tmax_f |-> Val(70), tmin_f |-> Val(60)]}

EnergyRows ==
    [date : WindowDates, energy : {Null, Val(-5), Val(1000)}]
      \cup {[date |-> OldDate, energy |-> Val(1000)]}

EnergyColumns == {"energy_mwh", "demand", "value"}

SeqsUpTo(S, n) == UNION {[1..k -> S] : k \in 0..n}

ProcessIdle ==
    /\ today = RunDay
    /\ weather_in = <<>>
    /\ energy_in = <<>>
    /\ energy_col = "energy_mwh"
    /\ pstate = "idle"
    /\ merged = <<>>
    /\ report = <<>>
    /\ cleaned = <<>>
    /\ perr = "none"

ProcessAllIdle ==
    /\ astate = "idle"
    /\ afile = 1
    /\ acount = 0
    /\ alog = <<>>
    /\ acleaned = [f \in 1..NumCities |-> -1]
    /\ aerr = "none"

TableIdle ==
    /\ days = DefaultDays
    /\ readings = <<>>
    /\ data = <<>>
    /\ tstate = "idle"
    /\ csv = <<>>
    /\ tlog = <<>>

\* The columns of merged_data.csv.
BatchColumns == {"city", "date", "tmax_f", "tmin_f", "energy_mwh"}

\* generate_analysis_report, lines 106-110: the keys of the results.
AnalysisNames ==
    {"correlation_matrix", "weekday_weekend", "seasonal_patterns", "geographic_overview",
     "heatmap_matrix"}

\* A frame read from a CSV: the dates are strings (dtype object).
Frame(rows) == [date_dtype |-> "object", columns |-> BatchColumns, rows |-> rows]

AnalysisIdle ==
    /\ merged_data = <<>>
    /\ df = Frame(<<>>)
    /\ ran = {}
    /\ results = [f \in AnalysisNames |-> Null]

(***************************************************************************)
(* The fetcher: run_fetcher.py main, fetch_last_90_days, fetch_weather_data, *)
(* fetch_energy_data and merge_city_files of src/src/data_fetcher.py.      *)
(***************************************************************************)
Cities == 1..NumCities
Sources == {"weather", "energy"}

\* What the upstream does to one requests.get of a fetcher.
FetchUpstream ==
    [kind : {"response"}, status : {200, 404, 500}]
      \cup [kind : {"ConnectionError"}, status : {0}]

\* The body of a weather response: resp.json() fails, or gives a document
\* with no "results" key, or with n results; wellformed: the results carry
\* date, datatype and value, with both TMAX and TMIN among the datatypes.
WeatherBodies ==
    [kind : {"invalid_json", "no_results_key"}, n : {0}, wellformed : {TRUE}]
      \cup [kind : {"results"}, n : {0}, wellformed : {TRUE}]
      \cup [kind : {"results"}, n : {1, PageLimit}, wellformed : BOOLEAN]

\* The body of an energy response: resp.json() fails, or the document lacks
\* "response", or "response" lacks "data", or "data" holds n rows;
\* wellformed: the rows carry "period".
EnergyBodies ==
    [kind : {"invalid_json", "no_response_key", "no_data_key"}, n : {0}, wellformed : {TRUE}]
      \cup [kind : {"data"}, n : {0}, wellformed : {TRUE}]
      \cup [kind : {"data"}, n : {1}, wellformed : BOOLEAN]

\* merge_city_files has not returned.
NothingCombined == [s \in Sources |-> {}]

FetcherAtStart ==
    /\ fpc = "start"
    /\ city = 1
    /\ offset = 0
    /\ all_records = <<>>
    /\ offsets = <<>>
    /\ records = -1
    /\ requested = {}
    /\ files = [s \in Sources |-> [c \in Cities |-> "none"]]
    /\ log = {}
    /\ raised = "none"
    /\ exit_code = -1
    /\ combined = NothingCombined

FetchIdle == FetcherAtStart /\ upstream = "finite"

\* The locals of a finished _get_with_backoff call are gone.
RetryReset ==
    /\ rstate' = "idle"
    /\ attempt' = 0
    /\ outcomes' = <<>>
    /\ sleeps' = <<>>
    /\ ret' = NoOutcome
    /\ UNCHANGED <<max_retries, backoff_factor>>

\* A mutant of CityExceptCatches: the handler names RequestException only.
CityExceptCatches_RequestOnly(e) == e \in {"HTTPError", "ConnectionError", "Timeout"}

\* Lines 123 and 180, `except Exception as e`: every exception a city's fetch
\* raises is caught inside the loop over the cities.
CityExceptCatches(e) == TRUE

\* The exception of a failed _get_with_backoff call as the fetcher sees it:
\* a None result makes resp.json() raise AttributeError.
CallException ==
    IF rstate = "returned_none" THEN "AttributeError" ELSE ret.exc

\* df_raw.pivot_table(index="date", columns="datatype", values="value") and
\* the TMAX/TMIN columns exist (lines 100-114).
Pivotable(pages) == \E k \in 1..Len(pages) : pages[k].wellformed

\* A mutant of FileAfter: the file is opened for writing before the fetch.
FileAfter_Truncate(res, file) == IF res = "saved" THEN "new" ELSE "none"

\* Lines 119-120 and 176-177: to_csv is the only statement that touches the
\* city's file, and it is reached only when the fetch has data and did not
\* raise.
FileAfter(res, file) == IF res = "saved" THEN "new" ELSE file

\* The end of one city's iteration of a fetcher loop, lines 96-124 and
\* 151-181: res is "saved" (CSV written, info logged), "nodata" (warning
\* logged, `continue`) or "failed" (exception e raised inside the try).  The
\* loop then goes to the next city; after the last city fetch_weather_data
\* returns and fetch_energy_data starts, and after fetch_energy_data
\* merge_city_files is called.  An exception the handler does not catch
\* leaves the fetcher and fetch_last_90_days and reaches run_fetcher.main,
\* which logs it and calls sys.exit(1).
EndCity(src, res, e) ==
    LET escapes == res = "failed" /\ ~CityExceptCatches(e) IN
    /\ RetryReset
    /\ files' = [files EXCEPT ![src][city] = FileAfter(res, @)]
    /\ log' = log \cup
                {CASE res = "saved"  -> <<"INFO", src, city>>
                   [] res = "nodata" -> <<"WARNING", src, city>>
                   [] escapes        -> <<"ERROR", "main", 0>>
                   [] OTHER          -> <<"ERROR", src, city>>}
    /\ offset' = 0
    /\ all_records' = <<>>
    /\ offsets' = <<>>
    /\ records' = -1
    /\ IF escapes
       THEN /\ fpc' = "exited"
            /\ raised' = e
            /\ exit_code' = 1
            /\ city' = city
       ELSE /\ UNCHANGED <<raised, exit_code>>
            /\ IF city < NumCities
               THEN city' = city + 1 /\ fpc' = src
               ELSE city' = 1 /\ fpc' = IF src = "weather" THEN "energy" ELSE "merge"
    /\ UNCHANGED <<requested, combined, upstream>>

\* run_fetcher.py main, lines 29-61: the API keys are checked, the mode is
\* chosen, and in every mode but "daily" fetch_last_90_days is called.
RunFetcherMain(keys, mode) ==
    /\ fpc = "start"
    /\ IF ~keys
       THEN fpc' = "exited" /\ exit_code' = 1
       ELSE IF mode = "daily"
            THEN fpc' = "exited" /\ exit_code' = 0
            ELSE fpc' = "weather" /\ exit_code' = exit_code
    /\ city' = 1
    /\ offset' = 0
    /\ all_records' = <<>>
    /\ offsets' = <<>>
    /\ records' = -1
    /\ UNCHANGED <<requested, files, log, raised, combined, upstream>>
    /\ UNCHANGED rvars

\* A list that grows with the pages of a city is held up to its first
\* MaxPages entries: pages beyond them are not told apart.
Held(list, x) == IF Len(list) < MaxPages THEN Append(list, x) ELSE list

\* fetch_weather_data, lines 75-86: the request of the page at `offset`.
WeatherRequest ==
    /\ fpc = "weather"
    /\ GetWithBackoffCall(DefaultMaxRetries, DefaultBackoffFactor)
    /\ requested' = requested \cup {<<"weather", city>>}
    /\ offsets' = Held(offsets, offset)
    /\ UNCHANGED <<fpc, city, offset, all_records, records, files, log, raised, exit_code,
                   combined, upstream>>

\* fetch_energy_data, line 149: the one request of a city.
EnergyRequest ==
    /\ fpc = "energy"
    /\ GetWithBackoffCall(DefaultMaxRetries, DefaultBackoffFactor)
    /\ requested' = requested \cup {<<"energy", city>>}
    /\ UNCHANGED <<fpc, city, offset, all_records, offsets, records, files, log, raised,
                   exit_code, combined, upstream>>

\* One attempt of the call in progress.
FetchAttempt ==
    /\ fpc \in {"weather", "energy"}
    /\ \E u \in FetchUpstream : Attempt(u)
    /\ UNCHANGED fvars

\* A mutant of LastPage: `if not records: break` is missing.
LastPage_ShortOnly(n) == 0 < n /\ n < PageLimit

\* A mutant of LastPage: only an empty page ends the paging.
LastPage_EmptyOnly(n) == n = 0

\* Lines 88-89 and 92-93: `if not records: break` and
\* `if len(records) < limit: break`.
LastPage(n) == n = 0 \/ n < PageLimit

\* fetch_weather_data, lines 87-94: a page arrives.  A page with records is
\* appended to all_records; an empty page or a short page leaves the paging
\* loop, a full page is followed by the request of the next offset.  A
\* finite upstream serves a full page for fewer than MaxPages offsets.
WeatherPage(body) ==
    /\ fpc = "weather"
    /\ rstate = "returned"
    /\ (upstream = "finite" /\ body.n = PageLimit) => Len(all_records) + 1 < MaxPages
    /\ IF body.kind = "invalid_json"
       THEN EndCity("weather", "failed", "JSONDecodeError")
       ELSE /\ records' = body.n
            /\ all_records' =
                  IF body.n > 0
                  THEN Held(all_records, [n |-> body.n, wellformed |-> body.wellformed,
                                          offset |-> offset])
                  ELSE all_records
            /\ IF LastPage(body.n)
               THEN fpc' = "pivot" /\ offset' = offset
               ELSE fpc' = fpc /\ offset' = IF offset < MaxPages * PageLimit
                                            THEN offset + PageLimit
                                            ELSE offset
            /\ RetryReset
            /\ UNCHANGED <<city, offsets, requested, files, log, raised, exit_code,
                           combined, upstream>>

\* fetch_weather_data, lines 96-121, after the paging loop: no record at all
\* is a warning and `continue`; otherwise the readings are pivoted,
\* converted, trimmed and saved, or the pivot fails.
WeatherPivot ==
    /\ fpc = "pivot"
    /\ IF all_records = <<>>
       THEN EndCity("weather", "nodata", "none")
       ELSE IF ~Pivotable(all_records)
       THEN EndCity("weather", "failed", "KeyError")
       ELSE EndCity("weather", "saved", "none")

\* fetch_energy_data, lines 150-178: the response arrives.
EnergyResponse(body) ==
    /\ fpc = "energy"
    /\ rstate = "returned"
    /\ IF body.kind = "invalid_json"
       THEN EndCity("energy", "failed", "JSONDecodeError")
       ELSE IF body.n = 0
       THEN EndCity("energy", "nodata", "none")
       ELSE IF ~body.wellformed
       THEN EndCity("energy", "failed", "KeyError")
       ELSE EndCity("energy", "saved", "none")

\* The call of _get_with_backoff did not return a response.
FetchCallFailed ==
    /\ fpc \in {"weather", "energy"}
    /\ rstate \in {"raised", "returned_none"}
    /\ EndCity(fpc, "failed", CallException)

\* merge_city_files (lines 185-198), then lines 207-212 and the end of
\* run_fetcher.main: pd.concat raises ValueError on an empty list of files,
\* which main logs before sys.exit(1).
MergeCityFiles ==
    /\ fpc = "merge"
    /\ LET weather_files == {c \in Cities : files["weather"][c] # "none"}
           energy_files  == {c \in Cities : files["energy"][c] # "none"}
       IN IF weather_files = {} \/ energy_files = {}
          THEN /\ raised' = "ValueError"
               /\ exit_code' = 1
               /\ log' = log \cup {<<"ERROR", "merge", 0>>, <<"ERROR", "main", 0>>}
               /\ combined' = NothingCombined
          ELSE /\ raised' = "none"
               /\ exit_code' = 0
               /\ log' = log
               /\ combined' = [s \in Sources |->
                                 {<<c, files[s][c]>> : c \in {x \in Cities : files[s][x] # "none"}}]
    /\ fpc' = "exited"
    /\ UNCHANGED <<city, offset, all_records, offsets, records, requested, files, upstream>>
    /\ UNCHANGED rvars

\* The fetcher is started again, on the data directory the last run left.
NextRun ==
    /\ fpc = "exited"
    /\ fpc' = "start"
    /\ files' = [s \in Sources |->
                  [c \in Cities |-> IF files[s][c] = "none" THEN "none" ELSE "old"]]
    /\ requested' = {}
    /\ log' = {}
    /\ raised' = "none"
    /\ exit_code' = -1
    /\ combined' = NothingCombined
    /\ UNCHANGED <<city, offset, all_records, offsets, records, upstream>>
    /\ UNCHANGED rvars

(***************************************************************************)
(* The orchestrator, src/src/pipeline.py, and the entrypoint scripts       *)
(* run_fetcher.py, run_processor.py, run_analysis.py and run_pipeline.py.  *)
(***************************************************************************)
\* main, lines 46-50: the steps, in the order of the list.
StepNames == <<"Data Fetching", "Data Processing", "Data Analysis">>

\* The exit statuses a step's command ends with.
ReturnCodes == {0, 1, 2}

NoEntry == [name |-> "none", exc |-> "none", exit |-> -1]

PipelineIdle ==
    /\ ppc = "start"
    /\ step = 1
    /\ started = <<>>
    /\ rcs = <<>>
    /\ printed = <<>>
    /\ logged = <<>>
    /\ main_exit = -1
    /\ entry = NoEntry

\* run_step, lines 8-22: the command is run and its return code decides which
\* message is logged and printed; run_step then returns to its caller.
RunStepPrints_AlwaysCompleted(rc) == "completed"

RunStepPrints(rc) == IF rc = 0 THEN "completed" ELSE "failed"

\* run_step, lines 18 and 21: logging.info on return code 0, logging.error
\* otherwise.
RunStepLogs(rc) == IF rc = 0 THEN "INFO" ELSE "ERROR"

\* main, lines 35-50: logging is set up and the list of steps is built.
PipelineMainStart ==
    /\ ppc = "start"
    /\ ppc' = "steps"
    /\ step' = 1
    /\ UNCHANGED <<started, rcs, printed, logged, main_exit, entry>>

\* main, lines 52-53: one iteration of `for name, cmd in steps: run_step(name, cmd)`,
\* the command ending with return code rc.
PipelineRunStep(rc) ==
    /\ ppc = "steps"
    /\ started' = Append(started, StepNames[step])
    /\ rcs' = Append(rcs, rc)
    /\ printed' = Append(printed, RunStepPrints(rc))
    /\ logged' = Append(logged, RunStepLogs(rc))
    /\ step' = step + 1
    /\ ppc' = IF step < Len(StepNames) THEN "steps" ELSE "dashboard"
    /\ UNCHANGED <<main_exit, entry>>

\* main, lines 56-63, with is_dashboard_running (lines 25-32): when the
\* process list shows a dashboard nothing is launched; when it shows none, or
\* cannot be read, run_step launches the dashboard and its command ends with
\* return code rc.  main then returns and the process exits with status 0.
PipelineDashboard(check, rc) ==
    /\ ppc = "dashboard"
    /\ IF check = "running"
       THEN /\ printed' = printed \o <<"already running", "Pipeline complete">>
            /\ UNCHANGED <<started, rcs, logged>>
       ELSE /\ started' = Append(started, "Launch Dashboard")
            /\ rcs' = Append(rcs, rc)
            /\ printed' = printed \o <<RunStepPrints(rc), "Pipeline complete">>
            /\ logged' = Append(logged, RunStepLogs(rc))
    /\ ppc' = "done"
    /\ main_exit' = 0
    /\ UNCHANGED <<step, entry>>

\* The failures the call made by an entrypoint script can end with.
EntryFailures == {"none", "FileNotFoundError", "ValueError", "KeyError"}

\* run_fetcher.py, lines 29-61: missing API keys end in sys.exit(1); any
\* exception of fetch_last_90_days is logged and ends in sys.exit(1).
FetcherMainExit(keys, exc) ==
    IF ~keys THEN 1 ELSE IF exc # "none" THEN 1 ELSE 0

\* run_processor.py, lines 24-37: any exception ends in sys.exit(1).
ProcessorMainExit(exc) == IF exc # "none" THEN 1 ELSE 0

\* run_analysis.py, lines 23-31: FileNotFoundError is caught, logged and
\* printed, and main returns; any other exception is not caught and ends the
\* interpreter with status 1.
AnalysisMainExit(exc) ==
    IF exc = "none" THEN 0
    ELSE IF exc = "FileNotFoundError" THEN 0
    ELSE 1

\* run_pipeline.py, lines 23-29: every Exception of run_pipeline() is caught
\* and printed, and the script ends normally.
PipelineScriptExit(exc) == 0

\* One entrypoint script runs from start to exit; exc is the exception its
\* call raised ("none" when it returned).
EntrypointRuns(name, keys, exc) ==
    /\ ppc = "start"
    /\ ppc' = "entry"
    /\ entry' = [name |-> name,
                 exc  |-> IF name = "run_fetcher" /\ ~keys THEN "missing API keys" ELSE exc,
                 exit |-> CASE name = "run_fetcher"   -> FetcherMainExit(keys, exc)
                            [] name = "run_processor" -> ProcessorMainExit(exc)
                            [] name = "run_analysis"  -> AnalysisMainExit(exc)
                            [] OTHER                  -> PipelineScriptExit(exc)]
    /\ UNCHANGED <<step, started, rcs, printed, logged, main_exit>>

PipelineInit == RetryIdle /\ FetchIdle /\ PipelineIdle /\ ProcessIdle /\ ProcessAllIdle /\ TableIdle /\ AnalysisIdle

PipelineStart == PipelineMainStart /\ UNCHANGED <<rvars, fvars, dvars, avars, tvars, nvars>>

PipelineStep ==
    /\ \E rc \in ReturnCodes : PipelineRunStep(rc)
    /\ UNCHANGED <<rvars, fvars, dvars, avars, tvars, nvars>>

PipelineFinish ==
    /\ \E check \in {"running", "not running", "check failed"}, rc \in ReturnCodes :
          PipelineDashboard(check, rc)
    /\ UNCHANGED <<rvars, fvars, dvars, avars, tvars, nvars>>

PipelineEntrypoint ==
    /\ \E name \in {"run_fetcher", "run_processor", "run_analysis", "run_pipeline"},
          keys \in BOOLEAN, exc \in EntryFailures :
          EntrypointRuns(name, keys, exc)
    /\ UNCHANGED <<rvars, fvars, dvars, avars, tvars, nvars>>

PipelineNext ==
    \/ PipelineStart
    \/ PipelineStep
    \/ PipelineFinish
    \/ PipelineEntrypoint

SpecPipeline == PipelineInit /\ [][PipelineNext]_vars


(***************************************************************************)
(* The fetcher process, run after run on one data directory.               *)
(***************************************************************************)
FetchInit == RetryIdle /\ FetchIdle /\ PipelineIdle /\ ProcessIdle /\ ProcessAllIdle /\ TableIdle /\ AnalysisIdle

FetchMain ==
    /\ \E keys \in BOOLEAN, mode \in {"history", "daily", "other"} : RunFetcherMain(keys, mode)
    /\ UNCHANGED <<pvars, dvars, avars, tvars, nvars>>

FetchWeatherRequest == WeatherRequest /\ UNCHANGED <<pvars, dvars, avars, tvars, nvars>>
FetchEnergyRequest == EnergyRequest /\ UNCHANGED <<pvars, dvars, avars, tvars, nvars>>
FetchGetAttempt == FetchAttempt /\ UNCHANGED <<pvars, dvars, avars, tvars, nvars>>
FetchWeatherPage == (\E body \in WeatherBodies : WeatherPage(body)) /\ UNCHANGED <<pvars, dvars, avars, tvars, nvars>>
FetchWeatherPivot == WeatherPivot /\ UNCHANGED <<pvars, dvars, avars, tvars, nvars>>
FetchEnergyResponse == (\E body \in EnergyBodies : EnergyResponse(body)) /\ UNCHANGED <<pvars, dvars, avars, tvars, nvars>>
FetchFailedCall == FetchCallFailed /\ UNCHANGED <<pvars, dvars, avars, tvars, nvars>>
FetchMerge == MergeCityFiles /\ UNCHANGED <<pvars, dvars, avars, tvars, nvars>>
FetchNextRun == NextRun /\ UNCHANGED <<pvars, dvars, avars, tvars, nvars>>

FetchNext ==
    \/ FetchMain
    \/ FetchWeatherRequest
    \/ FetchEnergyRequest
    \/ FetchGetAttempt
    \/ FetchWeatherPage
    \/ FetchWeatherPivot
    \/ FetchEnergyResponse
    \/ FetchFailedCall
    \/ FetchMerge
    \/ FetchNextRun

SpecFetch == FetchInit /\ [][FetchNext]_vars

(***************************************************************************)
(* One run of the fetcher against an upstream that is finite or endless.   *)
(* The process is sequential and every request ends, with a response or    *)
(* with the timeout of line 39, so a step that can be taken is taken.      *)
(***************************************************************************)
PagingInit ==
    /\ RetryIdle /\ FetcherAtStart /\ PipelineIdle /\ ProcessIdle /\ ProcessAllIdle /\ TableIdle /\ AnalysisIdle
    /\ upstream \in {"finite", "endless"}

PagingNext ==
    \/ FetchMain
    \/ FetchWeatherRequest
    \/ FetchEnergyRequest
    \/ FetchGetAttempt
    \/ FetchWeatherPage
    \/ FetchWeatherPivot
    \/ FetchEnergyResponse
    \/ FetchFailedCall
    \/ FetchMerge

SpecPaging == PagingInit /\ [][PagingNext]_vars /\ WF_vars(PagingNext)

(***************************************************************************)
(* The per-city merge and clean-up: process_city_data,                     *)
(* src/src/data_processor.py:91-135.                                       *)
(***************************************************************************)
\* df.drop_duplicates("date"): of the rows of one date the first is kept.
DropDuplicates(rows) ==
    LET keep == {k \in 1..Len(rows) : \A j \in 1..(k - 1) : rows[j].date # rows[k].date}
        F[k \in 0..Len(rows)] ==
            IF k = 0 THEN <<>>
            ELSE IF k \in keep THEN Append(F[k - 1], rows[k]) ELSE F[k - 1]
    IN F[Len(rows)]

\* Lines 109-111: start_date = today - 89 days; df["date"] >= start_date.
InWindow(date, day) == date >= day - WindowDays

Standardize(rows, day) ==
    DropDuplicates(SelectSeq(rows, LAMBDA r : InWindow(r.date, day)))

\* Lines 114-116: a "demand" column is renamed to "energy_mwh".
RenameDemand(col) == IF col = "demand" THEN "energy_mwh" ELSE col

\* A mutant of MergeOn: how="left", the weather rows with no energy row stay.
MergeOn_Left(w, e) ==
    [k \in 1..Len(w) |->
        [date |-> w[k].date, tmax_f |-> w[k].tmax_f, tmin_f |-> w[k].tmin_f,
         energy_mwh |-> IF \E j \in 1..Len(e) : e[j].date = w[k].date
                        THEN e[CHOOSE j \in 1..Len(e) : e[j].date = w[k].date].energy
                        ELSE Null]]

\* Line 119: pd.merge(weather_df, energy_df, on="date", how="inner"): the
\* rows of the left table, in its order, that have a row of the same date in
\* the right table (the dates of each table are unique by now).
MergeOn(w, e) ==
    LET F[k \in 0..Len(w)] ==
            IF k = 0 THEN <<>>
            ELSE LET js == {j \in 1..Len(e) : e[j].date = w[k].date}
                 IN IF js = {} THEN F[k - 1]
                    ELSE F[k - 1] \o
                           [i \in 1..Cardinality(js) |->
                              [date |-> w[k].date,
                               tmax_f |-> w[k].tmax_f,
                               tmin_f |-> w[k].tmin_f,
                               energy_mwh |-> e[CHOOSE j \in js :
                                                  Cardinality({m \in js : m <= j}) = i].energy]]
    IN F[Len(w)]

\* A mutant of DropNa: tmin_f is missing from the subset.
DropNa_NoTmin(rows) ==
    SelectSeq(rows, LAMBDA r : ~IsNull(r.tmax_f) /\ ~IsNull(r.energy_mwh))

\* Line 126: merged.dropna(subset=["tmax_f", "tmin_f", "energy_mwh"]).
DropNa(rows) ==
    SelectSeq(rows, LAMBDA r : ~IsNull(r.tmax_f) /\ ~IsNull(r.tmin_f) /\ ~IsNull(r.energy_mwh))

\* Line 127: cleaned[cleaned["energy_mwh"] >= 0]; NaN >= 0 is False.
NonNegativeEnergy(rows) ==
    SelectSeq(rows, LAMBDA r : ~IsNull(r.energy_mwh) /\ r.energy_mwh[1] >= 0)

\* Lines 126-128.
Clean(rows) == DropDuplicates(NonNegativeEnergy(DropNa(rows)))

\* The exception generate_data_quality_report (line 123) ends with on the
\* joined batch, "none" if it returns: df["energy_mwh"] raises KeyError when
\* the energy column is neither energy_mwh nor demand; on an empty batch the
\* latest date is NaT, and whether `today - NaT` raises depends on the pandas
\* build (nat_raises).
ReportFailure(batch, col, nat_raises) ==
    IF col # "energy_mwh" THEN "KeyError"
    ELSE IF batch = <<>> /\ nat_raises THEN "TypeError"
    ELSE "none"

(***************************************************************************)
(* The quality report: generate_data_quality_report,                       *)
(* src/src/data_processor.py:25-89.                                        *)
(***************************************************************************)
\* The number of rows of a table that satisfy P (len(df[mask])).
CountRows(rows, P(_)) == Cardinality({k \in 1..Len(rows) : P(rows[k])})

\* A row of the report of checks 1-3: check, column, count, note; the
\* is_fresh cell of such a row is empty.
ReportRow(check, column, count) ==
    [check |-> check, column |-> column, count |-> Val(count), is_fresh |-> Null]

\* Lines 33-41: df.isnull().sum(), one row for every column with a count > 0,
\* in the order of the columns; col is the name of the energy column.
MissingValues(batch, col) ==
    LET row(c, n) == IF n > 0 THEN <<ReportRow("missing_values", c, n)>> ELSE <<>>
    IN row("tmax_f", CountRows(batch, LAMBDA r : IsNull(r.tmax_f)))
         \o row("tmin_f", CountRows(batch, LAMBDA r : IsNull(r.tmin_f)))
         \o row(col, CountRows(batch, LAMBDA r : IsNull(r.energy_mwh)))

\* A mutant of AboveOrBelow: the bounds themselves are flagged.
AboveOrBelow_Inclusive(x) == ~IsNull(x) /\ (x[1] >= 130 \/ x[1] <= -50)

\* Lines 45-46: (df[c] > 130) | (df[c] < -50); a comparison with NaN is False.
AboveOrBelow(x) == ~IsNull(x) /\ (x[1] > 130 \/ x[1] < -50)

\* Lines 44-55: the rows a temperature of which is out of range, reported as
\* one row when there are any.
TemperatureOutliers(batch) ==
    LET n == CountRows(batch, LAMBDA r : AboveOrBelow(r.tmax_f) \/ AboveOrBelow(r.tmin_f))
    IN IF n > 0 THEN <<ReportRow("temperature_outliers", "tmax_f / tmin_f", n)>> ELSE <<>>

\* Lines 58-59: a "demand" column is renamed when there is no "energy_mwh".
ReportRename(col) == IF col = "demand" THEN "energy_mwh" ELSE col

\* A mutant of EnergyIssue: a demand of zero is an issue too.
EnergyIssue_ZeroToo(x) == IsNull(x) \/ x[1] <= 0

\* Line 61: df["energy_mwh"].isnull() | (df["energy_mwh"] < 0).
EnergyIssue(x) == IsNull(x) \/ x[1] < 0

\* Lines 61-69: the rows with an energy issue, reported as one row when
\* there are any.
EnergyIssues(batch) ==
    LET n == CountRows(batch, LAMBDA r : EnergyIssue(r.energy_mwh))
    IN IF n > 0 THEN <<ReportRow("energy_issues", "energy_mwh", n)>> ELSE <<>>

\* pd.to_datetime(df["date"]).max(): the most recent date of a batch with rows.
LatestDate(batch) ==
    CHOOSE d \in {batch[k].date : k \in 1..Len(batch)} :
        \A k \in 1..Len(batch) : batch[k].date <= d

\* A mutant of IsFresh: two days old is stale already.
IsFresh_Strict(days_old) == days_old < 2

\* Line 79: "is_fresh": days_old <= 2.
IsFresh(days_old) == days_old <= 2

\* Lines 72-80: the freshness row.  On a batch without rows the latest date
\* is NaT; when the subtraction does not raise, days_old is NaN and
\* NaN <= 2 is False.
Freshness(batch, day) ==
    IF batch = <<>>
    THEN <<[check |-> "data_freshness", column |-> "date", count |-> Null,
            is_fresh |-> <<FALSE>>]>>
    ELSE LET days_old == day - LatestDate(batch)
         IN <<[check |-> "data_freshness", column |-> "date", count |-> Val(days_old),
               is_fresh |-> <<IsFresh(days_old)>>]>>

\* generate_data_quality_report(df, city) on the day `day`: err is the
\* exception the call ends with ("none" when it returns) and rows is the
\* report it saved (lines 85-87); a call that raises saves nothing.
GenerateDataQualityReport(batch, col, day, nat_raises) ==
    LET err == ReportFailure(batch, ReportRename(col), nat_raises)
    IN [err  |-> err,
        rows |-> IF err = "none"
                 THEN MissingValues(batch, col) \o TemperatureOutliers(batch)
                        \o EnergyIssues(batch) \o Freshness(batch, day)
                 ELSE <<>>]

\* generate_data_quality_report is called on a batch of its own.
QualityReportCall(nat_raises) ==
    /\ pstate = "report"
    /\ LET rep == GenerateDataQualityReport(merged, energy_col, today, nat_raises)
       IN /\ report' = rep.rows
          /\ perr' = rep.err
          /\ pstate' = IF rep.err = "none" THEN "reported" ELSE "report_raised"
    /\ UNCHANGED <<today, weather_in, energy_in, energy_col, merged, cleaned>>

\* A mutant of ReportInput: the report is made of the cleaned rows.
ReportInput_Cleaned(m) == Clean(m)

\* Line 123: generate_data_quality_report(merged.copy(), city) is called on a
\* copy of the joined batch, before lines 126-128 drop any row.
ReportInput(m) == m

\* Lines 109-132 of process_city_data for the tables w_in and e_in read from
\* the two files, e_col being the name of the energy column: the joined
\* batch, the report saved for it, the exception the call ends with ("none"
\* when it returns) and the cleaned rows it saves.  There is no handler around
\* line 123: an exception of generate_data_quality_report leaves
\* process_city_data before the cleaned rows are computed.
ProcessCityResult(w_in, e_in, e_col, day, nat_raises) ==
    LET w   == Standardize(w_in, day)
        e   == Standardize(e_in, day)
        col == RenameDemand(e_col)
        m   == MergeOn(w, e)
        rep == GenerateDataQualityReport(ReportInput(m), col, day, nat_raises)
    IN [merged  |-> m,
        report  |-> rep.rows,
        err     |-> rep.err,
        cleaned |-> IF rep.err = "none" THEN Clean(m) ELSE <<>>]

\* process_city_data(weather_path, energy_path, city), lines 91-135, for
\* files that can be read and whose dates parse.
ProcessCityData(nat_raises) ==
    /\ pstate = "ready"
    /\ LET res == ProcessCityResult(weather_in, energy_in, energy_col, today, nat_raises)
           err == ReportFailure(res.merged, RenameDemand(energy_col), nat_raises)
       IN /\ merged' = res.merged
          /\ report' = res.report
          /\ perr' = err
          /\ IF err = "none"
             THEN pstate' = "done" /\ cleaned' = res.cleaned
             ELSE pstate' = "raised" /\ cleaned' = cleaned
    /\ UNCHANGED <<today, weather_in, energy_in, energy_col>>

\* The two files of test_process_city_data_with_outliers_and_nulls: three
\* days ending today, an outlier tmax_f, an outlier tmin_f, a missing tmax_f
\* and a negative energy value.
TestWeatherFile ==
    <<[date |-> RunDay,     tmax_f |-> Val(150), tmin_f |-> Val(70)],
      [date |-> RunDay - 1, tmax_f |-> Val(95),  tmin_f |-> Val(-60)],
      [date |-> RunDay - 2, tmax_f |-> Null,     tmin_f |-> Val(65)]>>

TestEnergyFile ==
    <<[date |-> RunDay,     energy |-> Val(1000)],
      [date |-> RunDay - 1, energy |-> Val(980)],
      [date |-> RunDay - 2, energy |-> Val(-5)]>>

ProcessInit ==
    /\ RetryIdle /\ FetchIdle /\ PipelineIdle /\ ProcessAllIdle /\ TableIdle /\ AnalysisIdle
    /\ today = RunDay
    /\ \/ /\ weather_in \in SeqsUpTo(WeatherRows, MaxWeatherRows)
          /\ energy_in \in SeqsUpTo(EnergyRows, MaxEnergyRows)
       \/ /\ weather_in = TestWeatherFile
          /\ energy_in = TestEnergyFile
    /\ energy_col \in EnergyColumns
    /\ pstate = "ready"
    /\ merged = <<>>
    /\ report = <<>>
    /\ cleaned = <<>>
    /\ perr = "none"

ProcessCity ==
    /\ \E nat_raises \in BOOLEAN : ProcessCityData(nat_raises)
    /\ UNCHANGED <<rvars, fvars, pvars, avars, tvars, nvars>>

ProcessNext == ProcessCity

SpecProcess == ProcessInit /\ [][ProcessNext]_vars

(***************************************************************************)
(* generate_data_quality_report on its own, called on any batch.           *)
(***************************************************************************)
\* The rows of the batches: dates two and three days before the run,
\* temperatures on and beyond the bounds of the outlier check, and energy
\* values that are missing, negative, zero and positive.
BatchRows ==
    {[date |-> d, tmax_f |-> t[1], tmin_f |-> t[2], energy_mwh |-> e] :
        d \in {RunDay - 3, RunDay - 2},
        t \in {<<Val(130), Val(-50)>>, <<Val(131), Val(60)>>, <<Val(70), Val(-51)>>,
               <<Null, Val(60)>>, <<Val(140), Val(-60)>>},
        e \in {Null, Val(-5), Val(0), Val(1000)}}

\* The batch of the outlier example: maximum temperatures 120, 140, -60, 70.
OutlierExample ==
    [k \in 1..4 |->
        [date |-> RunDay - 4 + k,
         tmax_f |-> Val(<<120, 140, -60, 70>>[k]),
         tmin_f |-> Val(-50),
         energy_mwh |-> Val(1000)]]

ReportBatches == SeqsUpTo(BatchRows, MaxBatchRows) \cup {OutlierExample}

ReportInit ==
    /\ RetryIdle /\ FetchIdle /\ PipelineIdle /\ ProcessAllIdle /\ TableIdle /\ AnalysisIdle
    /\ today = RunDay
    /\ weather_in = <<>>
    /\ energy_in = <<>>
    /\ energy_col \in EnergyColumns
    /\ pstate = "report"
    /\ merged \in ReportBatches
    /\ report = <<>>
    /\ cleaned = <<>>
    /\ perr = "none"

ReportCall ==
    /\ \E nat_raises \in BOOLEAN : QualityReportCall(nat_raises)
    /\ UNCHANGED <<rvars, fvars, pvars, avars, tvars, nvars>>

ReportNext == ReportCall

SpecReport == ReportInit /\ [][ReportNext]_vars

(***************************************************************************)
(* The processing stage: process_all_cities,                               *)
(* src/src/data_processor.py:137-162.                                      *)
(***************************************************************************)
\* The state the two raw files of a city can be in when their turn comes:
\* the energy file does not exist; a file cannot be read by pd.read_csv; a
\* date column cannot be parsed; or both files are read and parsed.
FileConditions == {"no_energy_file", "unreadable", "unparsable_dates", "readable"}

\* The tables of a readable pair of files: a weather file with complete
\* rows of yesterday and today, with a row of today only, with a row of today
\* that lacks tmax_f or has an outlier, or with a row older than the window only; an energy
\* file with rows of yesterday and today, with a row of yesterday only, with
\* a negative value, or with a header and no row; the energy column named
\* energy_mwh, demand or neither.
CityInputs ==
    [weather : {<<[date |-> RunDay - 1, tmax_f |-> Val(70), tmin_f |-> Val(60)],
                  [date |-> RunDay, tmax_f |-> Val(70), tmin_f |-> Val(60)]>>,
                <<[date |-> RunDay, tmax_f |-> Val(70), tmin_f |-> Val(60)]>>,
                <<[date |-> RunDay, tmax_f |-> Null, tmin_f |-> Val(60)]>>,
                <<[date |-> RunDay, tmax_f |-> Val(140), tmin_f |-> Val(60)]>>,
                <<[date |-> OldDate, tmax_f |-> Val(70), tmin_f |-> Val(60)]>>},
     energy  : {<<[date |-> RunDay - 1, energy |-> Val(1000)],
                  [date |-> RunDay, energy |-> Val(1000)]>>,
                <<[date |-> RunDay - 1, energy |-> Val(1000)]>>,
                <<[date |-> RunDay, energy |-> Val(-5)]>>,
                <<>>},
     col     : EnergyColumns]

LogRecord(level, msg, f) == [level |-> level, msg |-> msg, file |-> f]

\* The warnings generate_data_quality_report logs for a report (lines 41,
\* 55, 69, 82): one for every row of checks 1-3 and one for a stale
\* freshness row.
FindingsLogged(rows, f) ==
    LET findings == SelectSeq(rows, LAMBDA r : r.check # "data_freshness"
                                                  \/ r.is_fresh = <<FALSE>>)
    IN [k \in 1..Len(findings) |-> LogRecord("WARNING", findings[k].check, f)]

\* process_city_data(wp, ep, city), lines 91-135, as its caller sees it: the
\* exception it raises ("none" when it returns), the records it logs and the
\* number of rows of the cleaned CSV it writes (-1: none written).  The two
\* try statements (lines 95-107) cover the reading of the files and the
\* parsing of the dates only.
ProcessCityCall(cond, inp, f, day, nat_raises) ==
    IF cond = "unreadable"
    THEN [err |-> "none", log |-> <<LogRecord("ERROR", "read", f)>>, written |-> -1]
    ELSE IF cond = "unparsable_dates"
    THEN [err |-> "none", log |-> <<LogRecord("ERROR", "dates", f)>>, written |-> -1]
    ELSE LET res == ProcessCityResult(inp.weather, inp.energy, inp.col, day, nat_raises)
             findings == FindingsLogged(res.report, f)
         IN IF res.err # "none"
            THEN [err |-> res.err, log |-> <<>>, written |-> -1]
            ELSE [err |-> "none",
                  log |-> findings \o <<LogRecord("INFO", "cleaned saved", f)>>,
                  written |-> Len(res.cleaned)]

\* Lines 141-147: the job is logged as started and raw/weather is listed.
ProcessAllStart ==
    /\ astate = "idle"
    /\ astate' = "loop"
    /\ afile' = 1
    /\ acount' = 0
    /\ alog' = <<LogRecord("INFO", "start", 0)>>
    /\ UNCHANGED <<acleaned, aerr>>

\* Line 159: process_city_data is called outside any try statement, so an
\* exception it raises leaves the loop and process_all_cities.
CallPropagates(err) == err # "none"

\* Lines 148-160: one iteration of `for weather_file in cities`.
ProcessAllCity(cond, inp, nat_raises) ==
    /\ astate = "loop"
    /\ afile <= NumCities
    /\ IF cond = "no_energy_file"
       THEN /\ alog' = Append(alog, LogRecord("WARNING", "missing energy file", afile))
            /\ afile' = afile + 1
            /\ UNCHANGED <<astate, acount, acleaned, aerr>>
       ELSE LET call == ProcessCityCall(cond, inp, afile, today, nat_raises)
            IN IF CallPropagates(call.err)
               THEN /\ astate' = "raised"
                    /\ aerr' = call.err
                    /\ alog' = alog \o call.log
                    /\ UNCHANGED <<afile, acount, acleaned>>
               ELSE /\ alog' = alog \o call.log
                    /\ acleaned' = [acleaned EXCEPT ![afile] = call.written]
                    /\ acount' = acount + 1
                    /\ afile' = afile + 1
                    /\ UNCHANGED <<astate, aerr>>

\* Line 162: the loop is over and the number of processed cities is logged.
ProcessAllDone ==
    /\ astate = "loop"
    /\ afile > NumCities
    /\ astate' = "done"
    /\ alog' = Append(alog, LogRecord("INFO", "done", acount))
    /\ UNCHANGED <<afile, acount, acleaned, aerr>>

ProcessAllInit == RetryIdle /\ FetchIdle /\ PipelineIdle /\ ProcessIdle /\ ProcessAllIdle /\ TableIdle /\ AnalysisIdle

ProcessAllBegin == ProcessAllStart /\ UNCHANGED <<rvars, fvars, pvars, dvars, tvars, nvars>>

ProcessAllStep ==
    /\ \E cond \in FileConditions, inp \in CityInputs, nat_raises \in BOOLEAN :
          ProcessAllCity(cond, inp, nat_raises)
    /\ UNCHANGED <<rvars, fvars, pvars, dvars, tvars, nvars>>

ProcessAllEnd == ProcessAllDone /\ UNCHANGED <<rvars, fvars, pvars, dvars, tvars, nvars>>

ProcessAllNext ==
    \/ ProcessAllBegin
    \/ ProcessAllStep
    \/ ProcessAllEnd

SpecProcessAll == ProcessAllInit /\ [][ProcessAllNext]_vars

(***************************************************************************)
(* From the records of a city to its weather CSV: fetch_weather_data,      *)
(* src/src/data_fetcher.py:96-124.                                         *)
(***************************************************************************)
\* The dates of a table, in ascending order (sort_values("date"); the index
\* of a pivot table is sorted too).
SortedDates(D) ==
    CHOOSE q \in [1..Cardinality(D) -> D] : \A i, j \in 1..Cardinality(D) : i < j => q[i] < q[j]

\* aggfunc="first": the value of the first record of date d and datatype t,
\* NaN when there is none.
FirstValue(rs, d, t) ==
    LET ks == {k \in 1..Len(rs) : rs[k].date = d /\ rs[k].datatype = t}
    IN IF ks = {} THEN Null
       ELSE Val(rs[CHOOSE k \in ks : \A j \in ks : k <= j].value)

\* Line 101: df_raw.pivot_table(index="date", columns="datatype",
\* values="value", aggfunc="first"): one row for every date of the records.
PivotTable(rs) ==
    LET q == SortedDates({rs[k].date : k \in 1..Len(rs)})
    IN [i \in 1..Len(q) |->
          [date |-> q[i], TMAX |-> FirstValue(rs, q[i], "TMAX"),
           TMIN |-> FirstValue(rs, q[i], "TMIN")]]

\* `"TMAX" in df_pivot`: the pivot table has a column for every datatype
\* that occurs among the records.
HasColumn(rs, t) == \E k \in 1..Len(rs) : rs[k].datatype = t

\* A mutant of Fahrenheit: the value is taken for degrees, not tenths.
Fahrenheit_NotTenths(x) == 90 * x + 32 * 50

\* Lines 105 and 107: (x / 10 * 9/5) + 32, for x in tenths of a degree
\* Celsius.  The result is held in fiftieths of a degree Fahrenheit, in
\* which it is the whole number 9x + 1600.
Fahrenheit(x) == 9 * x + 32 * 50

\* Lines 104-107: the converted columns; a missing value stays missing.
ConvertCell(x) == IF IsNull(x) THEN Null ELSE Val(Fahrenheit(x[1]))

Converted(rows) ==
    [i \in 1..Len(rows) |->
        [date |-> rows[i].date, tmax_f |-> ConvertCell(rows[i].TMAX),
         tmin_f |-> ConvertCell(rows[i].TMIN)]]

\* A mutant of DropIncomplete: how="all", a row goes only when both are missing.
DropIncomplete_All(rows) ==
    SelectSeq(rows, LAMBDA r : ~IsNull(r.tmax_f) \/ ~IsNull(r.tmin_f))

\* Line 114: df_pivot.dropna(subset=["tmax_f", "tmin_f"]).
DropIncomplete(rows) ==
    SelectSeq(rows, LAMBDA r : ~IsNull(r.tmax_f) /\ ~IsNull(r.tmin_f))

\* A mutant of LastRows: head(days), the first rows.
LastRows_First(rows, n) == IF Len(rows) <= n THEN rows ELSE SubSeq(rows, 1, n)

\* Line 114: .tail(days), the last n rows.
LastRows(rows, n) ==
    IF Len(rows) <= n THEN rows ELSE SubSeq(rows, Len(rows) - n + 1, Len(rows))

\* Lines 100-114 for the records rs: dropna raises KeyError when the pivot
\* table has no TMAX or no TMIN column, because tmax_f or tmin_f was not made.
WeatherTable(rs, n) ==
    IF ~HasColumn(rs, "TMAX") \/ ~HasColumn(rs, "TMIN")
    THEN [err |-> "KeyError", rows |-> <<>>]
    ELSE [err |-> "none", rows |-> LastRows(DropIncomplete(Converted(PivotTable(rs))), n)]

\* Lines 96-124: the end of a city's iteration, the paging loop being left
\* with the records `readings`.
SaveWeatherTable ==
    /\ tstate = "ready"
    /\ IF readings = <<>>
       THEN /\ tlog' = <<"WARNING no data">>
            /\ tstate' = "nodata"
            /\ csv' = csv
       ELSE LET t == WeatherTable(readings, days)
            IN IF t.err # "none"
               THEN /\ tlog' = <<"ERROR fetch failed">>
                    /\ tstate' = "failed"
                    /\ csv' = csv
               ELSE /\ tlog' = (IF Len(t.rows) < days
                                THEN <<"WARNING incomplete">> ELSE <<>>)
                                 \o <<"INFO saved">>
                    /\ tstate' = "saved"
                    /\ csv' = t.rows
    /\ UNCHANGED <<days, readings, data>>

\* The records of the upstream: a date, a datatype of the request
\* (datatypeid=TMAX,TMIN) and a value in tenths of a degree Celsius.
Readings == [date : {RunDay - 1, RunDay}, datatype : {"TMAX", "TMIN"}, value : {0, 180}]

\* The records of the fetcher's test: TMAX 180 and TMIN 40 of one day.
TestReadings ==
    <<[date |-> RunDay, datatype |-> "TMAX", value |-> 180],
      [date |-> RunDay, datatype |-> "TMIN", value |-> 40]>>

WeatherTableInit ==
    /\ RetryIdle /\ FetchIdle /\ PipelineIdle /\ ProcessIdle /\ ProcessAllIdle /\ AnalysisIdle
    /\ days \in 1..MaxDays
    /\ readings \in SeqsUpTo(Readings, MaxReadings) \cup {TestReadings}
    /\ data = <<>>
    /\ tstate = "ready"
    /\ csv = <<>>
    /\ tlog = <<>>

WeatherTableSave == SaveWeatherTable /\ UNCHANGED <<rvars, fvars, pvars, dvars, avars, nvars>>

WeatherTableNext == WeatherTableSave

SpecWeatherTable == WeatherTableInit /\ [][WeatherTableNext]_vars

(***************************************************************************)
(* From the response of a city to its energy CSV: fetch_energy_data,       *)
(* src/src/data_fetcher.py:131-178.                                        *)
(***************************************************************************)
\* Line 169: df.sort_values("date").  The default sort is not stable, so the
\* rows of one date can come out in any order: the set of the arrangements
\* of rows that ascend by date.
SortValues(rows) ==
    {[i \in 1..Len(rows) |-> rows[f[i]]] : f \in
        {g \in Permutations(1..Len(rows)) :
            \A i, j \in 1..Len(rows) : i < j => rows[g[i]].date <= rows[g[j]].date}}

\* Lines 131-132 and 170: start = end - (days - 1), and
\* df["date"].dt.date.between(start, end) includes both ends.
Between(date, day, n) == day - (n - 1) <= date /\ date <= day

\* Lines 158-166 and 173-174: "period" becomes "date" and "value" becomes
\* "energy_mwh"; a column that is not in keep_cols, the timezone among them,
\* is not written.
KeepCols(rows) ==
    [i \in 1..Len(rows) |-> [date |-> rows[i].date, energy_mwh |-> rows[i].value]]

\* Lines 150-181: the end of a city's iteration for the response `data`.
SaveEnergyTable ==
    /\ tstate = "ready"
    /\ IF data = <<>>
       THEN /\ tlog' = <<"WARNING no data">>
            /\ tstate' = "nodata"
            /\ csv' = csv
       ELSE /\ \E sorted \in SortValues([i \in 1..Len(data) |->
                                             [date |-> data[i].period,
                                              value |-> data[i].value]]) :
                 csv' = KeepCols(SelectSeq(sorted, LAMBDA r : Between(r.date, today, days)))
            /\ tlog' = <<"INFO saved">>
            /\ tstate' = "saved"
    /\ UNCHANGED <<days, readings, data>>

\* The records of the upstream: the daily demand of the requested respondent
\* for a period, reported once for every timezone.
EnergyRecords ==
    [period : {RunDay - 2, RunDay - 1, RunDay}, value : {1000, 2000},
     timezone : {"Eastern", "Central"}]

\* The responses: the upstream reports a period once for a timezone.
EnergyResponses ==
    {d \in SeqsUpTo(EnergyRecords, MaxEnergyRecords) :
        \A i, j \in 1..Len(d) :
            (d[i].period = d[j].period /\ d[i].timezone = d[j].timezone) => i = j}

EnergyTableInit ==
    /\ RetryIdle /\ FetchIdle /\ PipelineIdle /\ ProcessIdle /\ ProcessAllIdle /\ AnalysisIdle
    /\ days \in 1..MaxDays
    /\ readings = <<>>
    /\ data \in EnergyResponses
    /\ tstate = "ready"
    /\ csv = <<>>
    /\ tlog = <<>>

EnergyTableSave == SaveEnergyTable /\ UNCHANGED <<rvars, fvars, pvars, dvars, avars, nvars>>

EnergyTableNext == EnergyTableSave

SpecEnergyTable == EnergyTableInit /\ [][EnergyTableNext]_vars

(***************************************************************************)
(* The analysis engine, src/src/analysis.py.  A date is a day number, day 0 *)
(* being Monday 2024-01-01.  A mean is kept as the exact fraction          *)
(* sum / count and a percentage as an exact fraction num / den, where the  *)
(* code computes the nearest float.                                        *)
(***************************************************************************)
\* Series.dt.weekday: Monday is 0 and Sunday is 6.
Weekday(d) == d % 7

\* Series.dt.day_name().
DayName(d) ==
    <<"Monday", "Tuesday", "Wednesday", "Thursday", "Friday", "Saturday", "Sunday">>[(d % 7) + 1]

\* Series.dt.month, for the days of January and February 2024.
Month(d) == IF d < 31 THEN 1 ELSE 2

\* A mutant of DayType: Saturday counts as a weekday.
DayType_SundayOnly(x) == IF x > 5 THEN "Weekend" ELSE "Weekday"

\* Line 27: lambda x: "Weekend" if x >= 5 else "Weekday".
DayType(x) == IF x >= 5 THEN "Weekend" ELSE "Weekday"

\* A mutant of TempRange: each band includes its upper bound.
TempRange_UpperInclusive(val) ==
    IF val <= 50 THEN "<50°F"
    ELSE IF val <= 60 THEN "50-60°F"
    ELSE IF val <= 70 THEN "60-70°F"
    ELSE IF val <= 80 THEN "70-80°F"
    ELSE IF val <= 90 THEN "80-90°F"
    ELSE ">90°F"

\* Lines 72-84: temp_range(val).
TempRange(val) ==
    IF val < 50 THEN "<50°F"
    ELSE IF val < 60 THEN "50-60°F"
    ELSE IF val < 70 THEN "60-70°F"
    ELSE IF val < 80 THEN "70-80°F"
    ELSE IF val < 90 THEN "80-90°F"
    ELSE ">90°F"

\* df["date"] = pd.to_datetime(df["date"]): the column is replaced in the
\* caller's frame by one of dtype datetime64[ns].
ToDatetime(d) == [d EXCEPT !.date_dtype = "datetime64[ns]"]

\* df[name] = values: the column is added to the caller's frame.
AddColumn(d, name, values) ==
    [d EXCEPT !.columns = @ \cup {name},
              !.rows = [k \in 1..Len(d.rows) |->
                          [c \in (DOMAIN d.rows[k]) \cup {name} |->
                              IF c = name THEN values[k] ELSE d.rows[k][c]]]]

\* The sum of energy_mwh over the rows with an index in S.
RECURSIVE SumEnergy(_, _)
SumEnergy(rows, S) ==
    IF S = {} THEN 0
    ELSE LET k == CHOOSE x \in S : TRUE
         IN rows[k].energy_mwh + SumEnergy(rows, S \ {k})

\* The mean of energy_mwh over the rows with an index in S, S not empty.
MeanEnergy(rows, S) == [num |-> SumEnergy(rows, S), den |-> Cardinality(S)]

\* compute_correlation, lines 19-22: the matrix is a function of the three
\* columns it selects, which stand for it here; df is only read.
ComputeCorrelation(d) ==
    [df     |-> d,
     result |-> [k \in 1..Len(d.rows) |->
                   <<d.rows[k].tmax_f, d.rows[k].tmin_f, d.rows[k].energy_mwh>>]]

\* weekday_weekend_analysis, lines 25-30: the date column is retyped and a
\* day_type column is added to df; the result has one row for every day type
\* with rows, in the order of the group keys (the std column is left out).
WeekdayWeekendAnalysis(d) ==
    LET d1 == ToDatetime(d)
        d2 == AddColumn(d1, "day_type",
                        [k \in 1..Len(d1.rows) |-> DayType(Weekday(d1.rows[k].date))])
        group(t) == {k \in 1..Len(d2.rows) : d2.rows[k].day_type = t}
        row(t) == IF group(t) = {} THEN <<>>
                  ELSE <<[day_type |-> t, mean |-> MeanEnergy(d2.rows, group(t)),
                          count |-> Cardinality(group(t))]>>
    IN [df |-> d2, result |-> row("Weekday") \o row("Weekend")]

\* seasonal_pattern_analysis, lines 33-38: a month column is added to df (the
\* date column is not replaced); one row for every (city, month) with rows.
SeasonalPatternAnalysis(d) ==
    LET d1 == AddColumn(d, "month", [k \in 1..Len(d.rows) |-> Month(d.rows[k].date)])
        keys == {<<d1.rows[k].city, d1.rows[k].month>> : k \in 1..Len(d1.rows)}
        group(g) == {k \in 1..Len(d1.rows) : <<d1.rows[k].city, d1.rows[k].month>> = g}
    IN [df     |-> d1,
        result |-> {[city |-> g[1], month |-> g[2],
                     avg_energy_mwh |-> MeanEnergy(d1.rows, group(g))] : g \in keys}]

\* Lines 55-57: (energy - yesterday) / yesterday * 100 in floats: a division
\* by zero gives inf, and 0 / 0 gives NaN, without raising.
PctChange(e, ey) ==
    IF ey = 0
    THEN [kind |-> IF e = ey THEN "nan" ELSE "inf", num |-> 0, den |-> 1]
    ELSE [kind |-> "finite", num |-> (e - ey) * 100, den |-> ey]

\* Lines 49-54: pd.merge(latest, prev_day[["city", "energy_mwh"]], on="city"),
\* an inner join that keeps the order of the left rows.
RECURSIVE MergeYesterday(_, _)
MergeYesterday(latest, prev_day) ==
    IF latest = <<>> THEN <<>>
    ELSE LET l == Head(latest)
             m == SelectSeq(prev_day, LAMBDA p : p.city = l.city)
         IN [k \in 1..Len(m) |->
               [city |-> l.city, date |-> l.date, tmax_f |-> l.tmax_f, tmin_f |-> l.tmin_f,
                energy_mwh |-> l.energy_mwh,
                energy_pct_change |-> PctChange(l.energy_mwh, m[k].energy_mwh)]]
            \o MergeYesterday(Tail(latest), prev_day)

\* df["date"].max(), for a frame with rows.
MaxOfDates(rows) ==
    CHOOSE x \in {rows[k].date : k \in 1..Len(rows)} :
        \A k \in 1..Len(rows) : rows[k].date <= x

\* generate_geographic_overview, lines 41-61: the date column of df is
\* retyped; the rows of the latest date of the whole frame are joined on the
\* city with the rows of the day before it.
GenerateGeographicOverview(d) ==
    LET d1 == ToDatetime(d)
        latest == SelectSeq(d1.rows, LAMBDA r : r.date = MaxOfDates(d1.rows))
        prev_day == SelectSeq(d1.rows, LAMBDA r : r.date = MaxOfDates(d1.rows) - 1)
    IN [df |-> d1, result |-> MergeYesterday(latest, prev_day)]

\* The cell fillna(0) puts where a (band, weekday) has no row.
ZeroCell == [num |-> 0, den |-> 1]

\* generate_heatmap_matrix, lines 64-97: the date column of df is retyped and
\* the columns weekday and temp_range are added; the pivot has a row for
\* every band and a column for every weekday name that some row has, the
\* mean energy in each cell with rows and 0 in the others.
GenerateHeatmapMatrix(d) ==
    LET d1 == ToDatetime(d)
        d2 == AddColumn(d1, "weekday", [k \in 1..Len(d1.rows) |-> DayName(d1.rows[k].date)])
        d3 == AddColumn(d2, "temp_range",
                        [k \in 1..Len(d2.rows) |-> TempRange(d2.rows[k].tmax_f)])
        index == {d3.rows[k].temp_range : k \in 1..Len(d3.rows)}
        columns == {d3.rows[k].weekday : k \in 1..Len(d3.rows)}
        cell(b, w) == {k \in 1..Len(d3.rows) :
                          d3.rows[k].temp_range = b /\ d3.rows[k].weekday = w}
    IN [df     |-> d3,
        result |-> [p \in index \X columns |->
                      IF cell(p[1], p[2]) = {} THEN ZeroCell
                      ELSE MeanEnergy(d3.rows, cell(p[1], p[2]))]]

\* The call of the analysis function whose result is kept under the key f.
Analyse(f, d) ==
    CASE f = "correlation_matrix"  -> ComputeCorrelation(d)
      [] f = "weekday_weekend"     -> WeekdayWeekendAnalysis(d)
      [] f = "seasonal_patterns"   -> SeasonalPatternAnalysis(d)
      [] f = "geographic_overview" -> GenerateGeographicOverview(d)
      [] OTHER                     -> GenerateHeatmapMatrix(d)

\* One analysis function is called on df, as the tests do.
AnalysisCall(f) ==
    /\ f \notin ran
    /\ LET res == Analyse(f, df)
       IN /\ df' = res.df
          /\ results' = [results EXCEPT ![f] = Val(res.result)]
    /\ ran' = ran \cup {f}
    /\ UNCHANGED merged_data

\* generate_analysis_report(df), lines 100-120: the five functions are called
\* on the same df, in the order of lines 106-110.
GenerateAnalysisReport ==
    /\ ran = {}
    /\ LET r1 == ComputeCorrelation(df)
           r2 == WeekdayWeekendAnalysis(r1.df)
           r3 == SeasonalPatternAnalysis(r2.df)
           r4 == GenerateGeographicOverview(r3.df)
           r5 == GenerateHeatmapMatrix(r4.df)
       IN /\ df' = r5.df
          /\ results' = [f \in AnalysisNames |->
                           Val(CASE f = "correlation_matrix"  -> r1.result
                                 [] f = "weekday_weekend"     -> r2.result
                                 [] f = "seasonal_patterns"   -> r3.result
                                 [] f = "geographic_overview" -> r4.result
                                 [] OTHER                     -> r5.result)]
    /\ ran' = AnalysisNames
    /\ UNCHANGED merged_data

\* The rows of a merged batch: Friday 5, Saturday 6 and Sunday 7 January
\* 2024, two cities, energy values that are not negative.
AnalysisCities == {"CityA", "CityB"}
AnalysisDates == {4, 5, 6}

MergedRows ==
    [city : AnalysisCities, date : AnalysisDates, tmax_f : {65}, tmin_f : {55},
     energy_mwh : {0, 1000, 1100}]

\* The cleaned rows of a city hold one row for a date.
UniqueKeys(rows) ==
    \A i, j \in 1..Len(rows) :
        i # j => <<rows[i].city, rows[i].date>> # <<rows[j].city, rows[j].date>>

MergedBatches ==
    {b \in SeqsUpTo(MergedRows, MaxAnalysisRows) : b # <<>> /\ UniqueKeys(b)}

\* One row at 65 degrees on Monday 8 January 2024 with energy 500.
HeatmapExample ==
    <<[city |-> "CityA", date |-> 7, tmax_f |-> 65, tmin_f |-> 55, energy_mwh |-> 500]>>

\* Ten days of one city, with a temperature on each side of every bound of
\* the bands.
BandExample ==
    [k \in 1..10 |->
        [city |-> "CityA", date |-> k - 1,
         tmax_f |-> <<49, 50, 59, 60, 69, 70, 79, 80, 89, 90>>[k],
         tmin_f |-> 55, energy_mwh |-> 100 * k]]

AnalysisInit ==
    /\ RetryIdle /\ FetchIdle /\ PipelineIdle /\ ProcessIdle /\ ProcessAllIdle /\ TableIdle
    /\ merged_data \in MergedBatches \cup {HeatmapExample, BandExample}
    /\ df = Frame(merged_data)
    /\ ran = {}
    /\ results = [f \in AnalysisNames |-> Null]

AnalysisStep ==
    /\ \E f \in AnalysisNames : AnalysisCall(f)
    /\ UNCHANGED <<rvars, fvars, pvars, dvars, avars, tvars>>

AnalysisReport ==
    /\ GenerateAnalysisReport
    /\ UNCHANGED <<rvars, fvars, pvars, dvars, avars, tvars>>

AnalysisNext ==
    \/ AnalysisStep
    \/ AnalysisReport

SpecAnalysis == AnalysisInit /\ [][AnalysisNext]_vars

(***************************************************************************)
(* The retry client on its own, called with any arguments.                 *)
(***************************************************************************)
RetryInit == RetryIdle /\ FetchIdle /\ PipelineIdle /\ ProcessIdle /\ ProcessAllIdle /\ TableIdle /\ AnalysisIdle

RetryCall ==
    /\ \E mr \in 0..MaxRetriesArg, bf \in 1..MaxBackoffArg : GetWithBackoffCall(mr, bf)
    /\ UNCHANGED <<fvars, pvars, dvars, avars, tvars, nvars>>

RetryAttempt ==
    /\ \E u \in UpstreamBehaviours : Attempt(u)
    /\ UNCHANGED <<fvars, pvars, dvars, avars, tvars, nvars>>

RetryLoopExhausted == LoopExhausted /\ UNCHANGED <<fvars, pvars, dvars, avars, tvars, nvars>>

RetryNext ==
    \/ RetryCall
    \/ RetryAttempt
    \/ RetryLoopExhausted

SpecRetry == RetryInit /\ [][RetryNext]_vars

(***************************************************************************)
(* Properties of the retry client, checked under SpecRetry.                *)
(***************************************************************************)
Success(o) == o.exc = "none"

\* A transient failure: a 5xx response or a network exception.
Transient(o) ==
    \/ o.exc = "HTTPError" /\ 500 <= o.status /\ o.status < 600
    \/ o.exc \in {"ConnectionError", "Timeout"}

\* requests.get itself raised (no response was received).
GetRaised(o) == o.exc \in {"ConnectionError", "Timeout", "Exception"}

Ended == rstate \in {"returned", "raised", "returned_none"}

LastOutcome == outcomes[Len(outcomes)]

\* C1: one call issues at most max_retries HTTP attempts, issues attempt k+1
\* only if attempt k ended in a 5xx response or a network exception, and ends
\* at the first successful attempt by returning that attempt's result.
C1_RetryDiscipline ==
    /\ Len(outcomes) <= max_retries
    /\ \A k \in 1..(Len(outcomes) - 1) : Transient(outcomes[k])
    /\ \A k \in 1..Len(outcomes) :
          Success(outcomes[k]) =>
              k = Len(outcomes) /\ rstate = "returned" /\ ret = outcomes[k]
    /\ rstate = "returned" => Len(outcomes) >= 1 /\ Success(LastOutcome)

\* C1 witness: a 5xx, then a network exception, then a success that is returned.
C1_Witness ==
    /\ rstate = "returned"
    /\ Len(outcomes) = 3
    /\ outcomes[1].exc = "HTTPError"
    /\ outcomes[2].exc = "ConnectionError"
    /\ ret = outcomes[3]

\* C2 (the claim as stated): a 4xx response other than 429 is raised at once,
\* with no sleep and no further attempt, and a 429 response is retried with
\* backoff while attempts are left.
C2_RateLimitRetried ==
    \A k \in 1..Len(outcomes) :
        LET o == outcomes[k] IN
        (o.exc = "HTTPError" /\ 400 <= o.status /\ o.status < 500) =>
            IF o.status = 429
            THEN k < max_retries =>
                    /\ Len(sleeps) >= k
                    /\ (k = Len(outcomes) => rstate = "running")
            ELSE /\ k = Len(outcomes)
                 /\ rstate = "raised"
                 /\ ret = o
                 /\ Len(sleeps) = k - 1

\* C3: when all max_retries attempts (max_retries >= 1) end in a transient
\* failure the call raises the last failure; it never returns None.
C3_ExhaustionRaises ==
    /\ max_retries >= 1 => rstate # "returned_none"
    /\ (/\ max_retries >= 1
        /\ Len(outcomes) = max_retries
        /\ \A k \in 1..Len(outcomes) : Transient(outcomes[k]))
       => rstate = "raised" /\ ret = LastOutcome

\* C3 witness: three transient failures in a row, the last one raised.
C3_Witness ==
    /\ rstate = "raised"
    /\ max_retries = 3
    /\ Len(outcomes) = 3
    /\ \A k \in 1..3 : Transient(outcomes[k])
    /\ Len(sleeps) = 2

CityOver(s, c) ==
    /\ <<s, c>> \in requested
    /\ ~(city = c /\ fpc \in (IF s = "weather" THEN {"weather", "pivot"} ELSE {s}))

Logged(level, s, c) == <<level, s, c>> \in log

EnergySavedThisRun == {c \in Cities : files["energy"][c] = "new"}

\* C6 (the claim as stated): a run in which no configured city returns an
\* energy record ends in a fatal data-absence error; when some city returns
\* records, the lack of data of another city is a warning only.
C6_NoEnergyDataIsFatal ==
    /\ (/\ fpc = "exited"
        /\ \A c \in Cities : <<"energy", c>> \in requested
        /\ EnergySavedThisRun = {})
       => exit_code # 0 /\ raised = "ValueError"
    /\ (/\ fpc = "exited"
        /\ EnergySavedThisRun # {}
        /\ \E c \in Cities : files["weather"][c] # "none")
       => exit_code = 0 /\ raised = "none"

\* The pages received for the city so far: those with records, and the empty
\* page that ended the paging, if any.
PagesReceived == Len(all_records) + (IF records = 0 THEN 1 ELSE 0)

\* C16: for each city the weather fetcher requests the offsets 0, limit,
\* 2*limit, ... with the fixed page size, appends every page with records to
\* all_records in the order of the requests, requests the next page only
\* after a full page, and leaves the paging loop exactly when a page is empty
\* or shorter than the page size, with every received page accumulated.
C16_PagingStopsAtShortPage ==
    fpc \in {"weather", "pivot"} =>
        /\ \A k \in 1..Len(offsets) : offsets[k] = (k - 1) * PageLimit
        /\ \A k \in 1..Len(all_records) :
              /\ all_records[k].offset = offsets[k]
              /\ all_records[k].n > 0
              /\ k < Len(all_records) => all_records[k].n = PageLimit
        /\ Len(offsets) = PagesReceived + (IF rstate = "idle" THEN 0 ELSE 1)
        /\ (fpc = "weather" /\ all_records # <<>>) =>
              /\ all_records[Len(all_records)].n = PageLimit
              /\ offset = Len(all_records) * PageLimit
        /\ fpc = "pivot" =>
              /\ rstate = "idle"
              /\ records >= 0 /\ records < PageLimit
              /\ records > 0 => all_records[Len(all_records)].n = records

\* C16 witness: a full page at offset 0 and a short page at offset limit were
\* received and accumulated, and the paging loop is left.
C16_Witness ==
    /\ fpc = "pivot"
    /\ offsets = <<0, PageLimit>>
    /\ Len(all_records) = 2
    /\ all_records[1].n = PageLimit
    /\ all_records[2].n = 1
    /\ records = 1

\* A step changes a city's raw file only by saving the city's fetch of this
\* run (the save is logged at INFO), or, between two runs, by nothing but age.
FilesFrame ==
    \A s \in Sources, c \in Cities :
        files'[s][c] # files[s][c] =>
            \/ /\ fpc \in {"pivot", "energy"} /\ city = c
               /\ files'[s][c] = "new"
               /\ <<"INFO", s, c>> \in log'
            \/ /\ fpc = "exited" /\ fpc' = "start"
               /\ files[s][c] = "new" /\ files'[s][c] = "old"

\* merge_city_files was called in this run.
MergeRan == fpc = "exited" /\ \A c \in Cities : <<"energy", c>> \in requested

\* C28 (the claim as stated): a failed or empty fetch never modifies or
\* removes a city's raw file, so the file holds the data of the last run
\* whose fetch of the city succeeded, and merge_city_files returns the rows of
\* every raw file, those left by earlier runs included, in the combined
\* table.
C28_StaleFileIsMerged ==
    /\ [][FilesFrame]_vars
    /\ [](MergeRan =>
            \A s \in Sources, c \in Cities :
                files[s][c] # "none" => <<c, files[s][c]>> \in combined[s])

\* C28 (amended): a failed or empty fetch never modifies or removes a city's
\* raw file; merge_city_files returns the rows of every raw file, those left
\* by earlier runs included, when each of the two raw directories holds at
\* least one CSV, and raises ValueError, returning no table, when one of them
\* holds none.
C28_StaleFileIsMergedWhenBothDirectoriesHoldFiles ==
    /\ [][FilesFrame]_vars
    /\ [](MergeRan =>
            IF \A s \in Sources : \E c \in Cities : files[s][c] # "none"
            THEN /\ raised = "none"
                 /\ \A s \in Sources, c \in Cities :
                       files[s][c] # "none" => <<c, files[s][c]>> \in combined[s]
            ELSE raised = "ValueError" /\ combined = NothingCombined)

\* C28 witness: in a later run the first city's weather fetch failed and its
\* energy fetch had no data; both of its files are those of an earlier run and
\* their rows are in the combined tables.
C28_Witness ==
    /\ MergeRan
    /\ exit_code = 0
    /\ Logged("ERROR", "weather", 1) /\ files["weather"][1] = "old"
    /\ Logged("WARNING", "energy", 1) /\ files["energy"][1] = "old"
    /\ <<1, "old">> \in combined["weather"]
    /\ <<1, "old">> \in combined["energy"]

(***************************************************************************)
(* Termination of the paging loop, checked under SpecPaging.               *)
(***************************************************************************)
\* The weather fetch of city c is running.
InWeatherFetch(c) == city = c /\ fpc \in {"weather", "pivot"}

\* C29 (the claim as stated): whatever the upstream does, the weather fetch
\* of every city ends after finitely many page requests and the fetcher goes
\* on to what follows the city.
C29_WeatherFetchEnds ==
    \A c \in Cities : InWeatherFetch(c) ~> ~InWeatherFetch(c)

\* C29 (amended): when the upstream serves a full page for only finitely many
\* offsets of a city, the weather fetch of every city ends after finitely
\* many page requests and the fetcher goes on to what follows the city.
C29_WeatherFetchEndsOnFiniteUpstream ==
    \A c \in Cities : (upstream = "finite" /\ InWeatherFetch(c)) ~> ~InWeatherFetch(c)

\* C29 witness: on a finite upstream the first city's weather fetch ended
\* with a raised failure and the fetcher is fetching the second city, of
\* which it has received a full page.
C29_Witness ==
    /\ upstream = "finite"
    /\ InWeatherFetch(2)
    /\ Logged("ERROR", "weather", 1)
    /\ Len(all_records) = 1 /\ all_records[1].n = PageLimit

(***************************************************************************)
(* Properties of the orchestrator and the entrypoints, under SpecPipeline. *)
(***************************************************************************)
\* C7 (the claim as stated): the stages run in the fixed order fetch,
\* process, analysis; once a stage has failed no later stage is started, and
\* the failure is surfaced to the caller of the orchestrator.
C7_FailureAbortsLaterStages ==
    /\ \A k \in 1..Len(started) :
          k <= Len(StepNames) => started[k] = StepNames[k]
    /\ \A k \in 1..Len(rcs) : rcs[k] # 0 => Len(started) = k
    /\ (ppc = "done" /\ \E k \in 1..Len(rcs) : rcs[k] # 0) => main_exit # 0

\* C8 (the claim as stated): every fatal failure of an entrypoint ends the
\* process with a non-zero exit status.
C8_FatalFailureExitsNonZero ==
    (ppc = "entry" /\ entry.exc # "none") => entry.exit # 0

\* C26: a step whose command ends with return code 0 prints the completion
\* message and logs at INFO; any other return code prints '<name> failed.'
\* and logs an error; in both cases run_step returns to main, which goes on
\* to its next statement: every step of the list is started whatever the
\* return codes of the steps before it.
C26_RunStepNeverRaises ==
    /\ Len(printed) >= Len(rcs) /\ Len(logged) = Len(rcs) /\ Len(started) = Len(rcs)
    /\ \A k \in 1..Len(rcs) :
          /\ rcs[k] = 0 => printed[k] = "completed" /\ logged[k] = "INFO"
          /\ rcs[k] # 0 => printed[k] = "failed" /\ logged[k] = "ERROR"
    /\ ppc = "steps" => step = Len(rcs) + 1
    /\ ppc \in {"dashboard", "done"} => Len(rcs) >= Len(StepNames)
    /\ ppc = "done" => printed[Len(printed)] = "Pipeline complete"

\* C26 witness: the first step failed, the second succeeded, and main went on
\* to its end.
C26_Witness ==
    /\ ppc = "done"
    /\ Len(rcs) = 4
    /\ rcs[1] = 1 /\ printed[1] = "failed" /\ logged[1] = "ERROR"
    /\ rcs[2] = 0 /\ printed[2] = "completed"
    /\ rcs[4] = 2 /\ printed[4] = "failed"

(***************************************************************************)
(* Properties of process_city_data, checked under SpecProcess.             *)
(***************************************************************************)
DatesOf(rows) == {rows[k].date : k \in 1..Len(rows)}

\* The first row of a date in a file.
FirstRow(rows, d) == rows[CHOOSE k \in 1..Len(rows) :
                            /\ rows[k].date = d
                            /\ \A j \in 1..(k - 1) : rows[j].date # d]

Processed == pstate \in {"done", "raised"}

\* C9 (the claim as stated): the merged set holds exactly one row for each
\* date present in both the weather and the energy series, and no other row.
C9_MergedIsDateIntersection ==
    Processed =>
        /\ DatesOf(merged) = DatesOf(weather_in) \cap DatesOf(energy_in)
        /\ Len(merged) = Cardinality(DatesOf(merged))

\* The dates of the last 90 days that both files hold.
CommonWindowDates ==
    {d \in DatesOf(weather_in) \cap DatesOf(energy_in) : d >= today - 89}

\* C9 (amended): the joined batch holds exactly one row for each date of the
\* last 90 days (date >= today - 89) present in both series, and no other
\* row; the cleaned output keeps of them the dates whose first weather row
\* and first energy row have tmax_f, tmin_f and a non-negative energy.
C9_MergedIsWindowedIntersection ==
    /\ Processed =>
          /\ DatesOf(merged) = CommonWindowDates
          /\ Len(merged) = Cardinality(CommonWindowDates)
    /\ pstate = "done" =>
          /\ DatesOf(cleaned) =
                {d \in CommonWindowDates :
                    /\ ~IsNull(FirstRow(weather_in, d).tmax_f)
                    /\ ~IsNull(FirstRow(weather_in, d).tmin_f)
                    /\ ~IsNull(FirstRow(energy_in, d).energy)
                    /\ FirstRow(energy_in, d).energy[1] >= 0}
          /\ Len(cleaned) = Cardinality(DatesOf(cleaned))

\* C9 witness: weather dates {d1, d2}, energy dates {d1, d3}, all in the
\* window, give the single row d1.
C9_Witness ==
    /\ pstate = "done"
    /\ DatesOf(weather_in) = {today - 89, today}
    /\ Len(energy_in) = 2
    /\ DatesOf(energy_in) \cap DatesOf(weather_in) = {today}
    /\ Len(merged) = 1 /\ merged[1].date = today
    /\ Len(cleaned) = 1

\* C10: every row of the cleaned output has tmax_f, tmin_f and energy_mwh
\* present, also when the energy column of the input is named demand.
C10_CleanedHasNoNulls ==
    \A k \in 1..Len(cleaned) :
        /\ ~IsNull(cleaned[k].tmax_f)
        /\ ~IsNull(cleaned[k].tmin_f)
        /\ ~IsNull(cleaned[k].energy_mwh)

\* C10 witness: the energy column is named demand, the joined batch has a row
\* with a missing tmin_f, and the cleaned output keeps only the other row.
C10_Witness ==
    /\ pstate = "done"
    /\ energy_col = "demand"
    /\ Len(merged) = 2
    /\ \E k \in 1..2 : IsNull(merged[k].tmin_f) /\ ~IsNull(merged[k].tmax_f)
                          /\ ~IsNull(merged[k].energy_mwh)
    /\ Len(cleaned) = 1

(***************************************************************************)
(* Properties of generate_data_quality_report, checked under SpecReport.   *)
(***************************************************************************)
\* The rows of the saved report that belong to one check.
RowsOf(check) == SelectSeq(report, LAMBDA r : r.check = check)

BatchIndex == 1..Len(merged)

\* A temperature outside the closed interval [-50, 130].
Outside(x) == x # Null /\ ~(-50 <= x[1] /\ x[1] <= 130)

OutlierRows == {k \in BatchIndex : Outside(merged[k].tmax_f) \/ Outside(merged[k].tmin_f)}

IssueRows == {k \in BatchIndex : merged[k].energy_mwh = Null \/ merged[k].energy_mwh[1] < 0}

NullCells ==
    {k \in BatchIndex : Null \in {merged[k].tmax_f, merged[k].tmin_f, merged[k].energy_mwh}}

\* C11 (the claim as stated): on every batch the report call evaluates all
\* four checks: the saved report has exactly one data_freshness row, also
\* for an empty batch, a row of checks 1-3 exactly when the check has a
\* finding, and so no row of checks 1-3 when the batch is clean.
C11_AllFourChecksRun ==
    pstate \in {"reported", "report_raised"} =>
        /\ Len(RowsOf("data_freshness")) = 1
        /\ (RowsOf("missing_values") # <<>>) <=> (NullCells # {})
        /\ (Len(RowsOf("temperature_outliers")) = 1) <=> (OutlierRows # {})
        /\ (Len(RowsOf("energy_issues")) = 1) <=> (IssueRows # {})
        /\ (NullCells \cup OutlierRows \cup IssueRows = {}) => Len(report) = 1

\* C12: the temperature_outliers row of the report counts the rows whose
\* tmax_f or tmin_f lies outside [-50, 130], each row once and the bounds
\* -50 and 130 not flagged; it is the only such row, and there is none when
\* the count is 0; maximum temperatures 120, 140, -60, 70 give the count 2.
C12_OutlierCount ==
    pstate = "reported" =>
        /\ RowsOf("temperature_outliers") =
              IF OutlierRows = {} THEN <<>>
              ELSE <<[check |-> "temperature_outliers", column |-> "tmax_f / tmin_f",
                      count |-> <<Cardinality(OutlierRows)>>, is_fresh |-> <<>>]>>
        /\ merged = OutlierExample => RowsOf("temperature_outliers")[1].count = <<2>>

\* C12 witness: the report of the batch with maximum temperatures 120, 140,
\* -60, 70 (and minimum temperatures on the bound -50) counts 2 outliers.
C12_Witness ==
    /\ pstate = "reported"
    /\ Len(merged) = 4
    /\ \A k \in 1..4 : merged[k].tmax_f[1] = <<120, 140, -60, 70>>[k]
    /\ \A k \in 1..4 : merged[k].tmin_f[1] = -50
    /\ Len(RowsOf("temperature_outliers")) = 1
    /\ RowsOf("temperature_outliers")[1].count = <<2>>

\* The most recent date of the batch.
MaxDate == CHOOSE d \in DatesOf(merged) : \A x \in DatesOf(merged) : x <= d

\* C13: for a batch with rows, the count of the freshness row is the number
\* of days between today and the most recent date of the batch, and is_fresh
\* is true exactly when that number is at most 2.
C13_FreshnessFlag ==
    (pstate = "reported" /\ merged # <<>>) =>
        /\ Len(RowsOf("data_freshness")) = 1
        /\ RowsOf("data_freshness")[1].count = <<today - MaxDate>>
        /\ RowsOf("data_freshness")[1].is_fresh = <<today - MaxDate <= 2>>
        /\ today - MaxDate = 2 => RowsOf("data_freshness")[1].is_fresh = <<TRUE>>
        /\ today - MaxDate = 3 => RowsOf("data_freshness")[1].is_fresh = <<FALSE>>

\* C13 witness: a batch whose dates are three and two days old is fresh.
C13_Witness ==
    /\ pstate = "reported"
    /\ DatesOf(merged) = {today - 3, today - 2}
    /\ RowsOf("data_freshness")[1].count = <<2>>
    /\ RowsOf("data_freshness")[1].is_fresh = <<TRUE>>

\* C14: the energy_issues row of the report counts the rows whose energy
\* value is null or negative (0 is not an issue); it is the only such row,
\* and there is none when the count is 0.
C14_EnergyIssueCount ==
    pstate = "reported" =>
        RowsOf("energy_issues") =
            IF IssueRows = {} THEN <<>>
            ELSE <<[check |-> "energy_issues", column |-> "energy_mwh",
                    count |-> <<Cardinality(IssueRows)>>, is_fresh |-> <<>>]>>

\* C14 witness: of a row with energy 0 and a row with energy -5 only the
\* second is counted, the energy column of the batch being named demand.
C14_Witness ==
    /\ pstate = "reported"
    /\ energy_col = "demand"
    /\ Len(merged) = 2
    /\ merged[1].energy_mwh = <<0>>
    /\ merged[2].energy_mwh = <<-5>>
    /\ Len(RowsOf("energy_issues")) = 1
    /\ RowsOf("energy_issues")[1].count = <<1>>

(***************************************************************************)
(* Properties of process_all_cities, checked under SpecProcessAll.         *)
(***************************************************************************)
\* The files whose iteration of the loop has logged a record.
HandledFiles == {alog[k].file : k \in 1..Len(alog)} \ {0}

\* C15 (the claim as stated): a failure while handling one city is logged and
\* isolated: no exception leaves process_all_cities, and when the run ends
\* every listed city has been handled.
C15_CityFailureIsolated ==
    /\ astate # "raised"
    /\ aerr = "none"
    /\ astate = "done" => HandledFiles = 1..NumCities

(***************************************************************************)
(* Properties of the weather table, checked under SpecWeatherTable.        *)
(***************************************************************************)
\* The dates for which a record of datatype t was fetched.
ReadingDates(t) ==
    {readings[k].date : k \in {j \in 1..Len(readings) : readings[j].datatype = t}}

\* The complete days fetched: the dates with a TMAX and a TMIN record.
CompleteDays == ReadingDates("TMAX") \cap ReadingDates("TMIN")

CsvDates == {csv[k].date : k \in 1..Len(csv)}

Min(a, b) == IF a <= b THEN a ELSE b

\* The n most recent dates of D (all of D when it has fewer).
MostRecent(D, n) == {d \in D : Cardinality({x \in D : x > d}) < n}

\* The first record of date d and datatype t.
FirstReading(d, t) ==
    readings[CHOOSE k \in 1..Len(readings) :
                /\ readings[k].date = d /\ readings[k].datatype = t
                /\ \A j \in 1..(k - 1) : ~(readings[j].date = d /\ readings[j].datatype = t)]

\* C17: every row the weather fetcher persists for a city has both tmax_f and
\* tmin_f, there is one row per date, and a date for which only TMAX or only
\* TMIN was reported is not in the output.
C17_PersistedRowsComplete ==
    /\ \A k \in 1..Len(csv) : csv[k].tmax_f # Null /\ csv[k].tmin_f # Null
    /\ \A i, j \in 1..Len(csv) : i # j => csv[i].date # csv[j].date
    /\ \A d \in (ReadingDates("TMAX") \cup ReadingDates("TMIN")) \ CompleteDays :
          d \notin CsvDates
    /\ tstate # "saved" => csv = <<>>

\* C17 witness: one day was reported with TMAX only and another day with
\* both; the saved table holds the second day alone.
C17_Witness ==
    /\ tstate = "saved"
    /\ ReadingDates("TMAX") = {RunDay - 1, RunDay}
    /\ ReadingDates("TMIN") = {RunDay}
    /\ Len(csv) = 1
    /\ csv[1].date = RunDay

C20_FahrenheitConversion ==
    \A k \in 1..Len(csv) :
        LET vmax == FirstReading(csv[k].date, "TMAX").value
            vmin == FirstReading(csv[k].date, "TMIN").value
        IN /\ csv[k].tmax_f = <<((vmax * 9 * 50) \div (10 * 5)) + 32 * 50>>
           /\ csv[k].tmin_f = <<((vmin * 9 * 50) \div (10 * 5)) + 32 * 50>>
           /\ vmax = 0 => csv[k].tmax_f = <<32 * 50>>
           /\ vmax = 180 => csv[k].tmax_f = <<3220>>
           /\ vmin = 40 => csv[k].tmin_f = <<1960>>

\* C20 witness: the records TMAX 180 and TMIN 40 of one day are saved as
\* 64.4 and 39.2 degrees.
C20_Witness ==
    /\ tstate = "saved"
    /\ readings = TestReadings
    /\ Len(csv) = 1
    /\ csv[1].tmax_f = <<3220>>
    /\ csv[1].tmin_f = <<1960>>

(***************************************************************************)
(* Properties of the energy table, checked under SpecEnergyTable.          *)
(***************************************************************************)
\* C19 (the claim as stated): the energy CSV persisted for a city has at most
\* one record per date: of several records the upstream returns for one day,
\* one for every timezone, only those of a single timezone are kept.
C19_OneRecordPerDate ==
    tstate = "saved" =>
        \A i, j \in 1..Len(csv) : i # j => csv[i].date # csv[j].date

(***************************************************************************)
(* The order of report and cleaning in process_city_data, under            *)
(* SpecProcess.                                                            *)
(***************************************************************************)
\* The count of the report's row of a check, 0 when it has none.
ReportCount(check) ==
    IF RowsOf(check) = <<>> THEN 0 ELSE RowsOf(check)[1].count[1]

\* The count of the report's missing_values row of a column, 0 when none.
MissingCount(column) ==
    LET rs == SelectSeq(report, LAMBDA r : r.check = "missing_values" /\ r.column = column)
    IN IF rs = <<>> THEN 0 ELSE rs[1].count[1]

NullIn(column) == Cardinality({k \in BatchIndex : merged[k][column] = Null})

\* C27: the quality report is made of the joined batch before any row is
\* dropped and the cleaned rows are written after it: the report counts the
\* outliers, nulls and negative energy values of all joined rows, the rows
\* with a null or a negative energy are absent from the cleaned table, and
\* when the report call raises no cleaned table is written.
C27_ReportBeforeCleaning ==
    /\ pstate = "done" =>
          /\ ReportCount("temperature_outliers") = Cardinality(OutlierRows)
          /\ ReportCount("energy_issues") = Cardinality(IssueRows)
          /\ MissingCount("tmax_f") = NullIn("tmax_f")
          /\ MissingCount("tmin_f") = NullIn("tmin_f")
          /\ MissingCount("energy_mwh") = NullIn("energy_mwh")
          /\ \A k \in NullCells \cup IssueRows : merged[k].date \notin DatesOf(cleaned)
          /\ \A k \in BatchIndex \ (NullCells \cup IssueRows) :
                \E j \in 1..Len(cleaned) : cleaned[j] = merged[k]
    /\ pstate = "raised" => cleaned = <<>>

\* C27 witness: the files of the test with outliers and nulls: the report
\* counts two outlier rows, one missing tmax_f and one energy issue, and the
\* cleaned table holds the two rows without a null or a negative energy.
C27_Witness ==
    /\ pstate = "done"
    /\ Len(merged) = 3
    /\ ReportCount("temperature_outliers") = 2
    /\ MissingCount("tmax_f") = 1
    /\ ReportCount("energy_issues") = 1
    /\ Len(cleaned) = 2
    /\ \E j \in 1..2 : cleaned[j].tmax_f = Val(150)

(***************************************************************************)
(* Backoff delays of the retry client, checked under SpecRetry.            *)
(***************************************************************************)
\* C25: the delay slept between failed attempt k and attempt k+1 is
\* backoff_factor * 2^(k-1): one sleep between every two attempts, the first
\* of backoff_factor seconds and each later one twice the one before it.
C25_BackoffDoubles ==
    /\ Len(sleeps) = IF rstate \in {"returned", "raised"}
                     THEN Len(outcomes) - 1
                     ELSE Len(outcomes)
    /\ \A k \in 1..Len(sleeps) :
          /\ Transient(outcomes[k])
          /\ sleeps[k] = IF k = 1 THEN backoff_factor ELSE 2 * sleeps[k - 1]

\* C25 witness: three failed attempts with backoff_factor 2 slept 2, 4 and 8
\* seconds before the fourth attempt.
C25_Witness ==
    /\ backoff_factor = 2
    /\ Len(outcomes) = 4
    /\ sleeps = <<2, 4, 8>>

(***************************************************************************)
(* Properties of the analysis engine, checked under SpecAnalysis.          *)
(***************************************************************************)
\* The table an analysis function returned.
ResultOf(f) == results[f][1]

\* The count the weekday/weekend summary reports for a day type, 0 when the
\* summary has no row for it.
CountOf(t) ==
    LET rs == SelectSeq(ResultOf("weekday_weekend"), LAMBDA r : r.day_type = t)
    IN IF rs = <<>> THEN 0 ELSE rs[1].count

\* C21: weekday_weekend_analysis labels every row with exactly one day type,
\* Weekday for the weekday indexes 0-4 and Weekend for 5 and 6, and the counts
\* it reports for the two day types add up to the number of rows of the batch.
C21_DayTypesPartitionRows ==
    "weekday_weekend" \in ran =>
        /\ Len(df.rows) = Len(merged_data)
        /\ \A k \in 1..Len(df.rows) :
              /\ df.rows[k].day_type \in {"Weekday", "Weekend"}
              /\ df.rows[k].day_type = "Weekday" <=> (merged_data[k].date % 7) \in 0..4
              /\ df.rows[k].day_type = "Weekend" <=> (merged_data[k].date % 7) \in {5, 6}
        /\ \A i \in 1..Len(ResultOf("weekday_weekend")) :
              /\ ResultOf("weekday_weekend")[i].day_type \in {"Weekday", "Weekend"}
              /\ \A j \in 1..Len(ResultOf("weekday_weekend")) :
                    i # j => ResultOf("weekday_weekend")[i].day_type
                               # ResultOf("weekday_weekend")[j].day_type
        /\ CountOf("Weekday") + CountOf("Weekend") = Len(merged_data)

\* C21 witness: the ten days from Monday 1 to Wednesday 10 January: eight
\* rows are counted as Weekday and the Saturday and the Sunday as Weekend.
C21_Witness ==
    /\ "weekday_weekend" \in ran
    /\ Len(merged_data) = 10
    /\ CountOf("Weekday") = 8
    /\ CountOf("Weekend") = 2
    /\ df.rows[6].day_type = "Weekend" /\ df.rows[5].day_type = "Weekday"

\* The cities of the batch and its most recent date.
BatchCities == {merged_data[k].city : k \in 1..Len(merged_data)}

LatestDay ==
    CHOOSE x \in {merged_data[k].date : k \in 1..Len(merged_data)} :
        \A k \in 1..Len(merged_data) : merged_data[k].date <= x

HasRow(c, d) ==
    \E k \in 1..Len(merged_data) : merged_data[k].city = c /\ merged_data[k].date = d

EnergyOn(c, d) ==
    merged_data[CHOOSE k \in 1..Len(merged_data) :
                    merged_data[k].city = c /\ merged_data[k].date = d].energy_mwh

\* The rows of the overview for a city.
OverviewRows(c) ==
    {i \in 1..Len(ResultOf("geographic_overview")) :
        ResultOf("geographic_overview")[i].city = c}

OverviewRow(c) == ResultOf("geographic_overview")[CHOOSE i \in OverviewRows(c) : TRUE]

\* The percentage p is (today - yesterday) / yesterday * 100.
IsPctChange(p, e, ey) ==
    /\ ey # 0
    /\ p.kind = "finite"
    /\ p.num * ey = (e - ey) * 100 * p.den

\* C22 (the claim as stated): the overview has, for each city of the batch,
\* one row, for the single most recent date D of the batch, whose
\* energy_pct_change is (energy(D) - energy(D-1)) / energy(D-1) * 100.
C22_OneRowPerCity ==
    "geographic_overview" \in ran =>
        \A c \in BatchCities :
            /\ Cardinality(OverviewRows(c)) = 1
            /\ OverviewRow(c).date = LatestDay
            /\ HasRow(c, LatestDay) /\ HasRow(c, LatestDay - 1)
            /\ IsPctChange(OverviewRow(c).energy_pct_change,
                           EnergyOn(c, LatestDay), EnergyOn(c, LatestDay - 1))

\* The bands of the heatmap and the temperatures of each.
Bands == {"<50°F", "50-60°F", "60-70°F", "70-80°F", "80-90°F", ">90°F"}

InBand(b, t) ==
    CASE b = "<50°F"   -> t < 50
      [] b = "50-60°F" -> 50 <= t /\ t < 60
      [] b = "60-70°F" -> 60 <= t /\ t < 70
      [] b = "70-80°F" -> 70 <= t /\ t < 80
      [] b = "80-90°F" -> 80 <= t /\ t < 90
      [] OTHER         -> t >= 90

WeekdayNames ==
    {"Monday", "Tuesday", "Wednesday", "Thursday", "Friday", "Saturday", "Sunday"}

\* The rows of the batch of a band and a weekday name.
CellRows(b, w) ==
    {k \in 1..Len(merged_data) :
        InBand(b, merged_data[k].tmax_f) /\ DayName(merged_data[k].date) = w}

RECURSIVE BatchEnergy(_)
BatchEnergy(S) ==
    IF S = {} THEN 0
    ELSE LET k == CHOOSE x \in S : TRUE
         IN merged_data[k].energy_mwh + BatchEnergy(S \ {k})

\* The cells of the heatmap that are not 0.
NonZeroCells == {p \in DOMAIN ResultOf("heatmap_matrix") : ResultOf("heatmap_matrix")[p].num # 0}

\* C23: generate_heatmap_matrix assigns every row to exactly one band by its
\* tmax_f (<50, [50,60), [60,70), [70,80), [80,90), >=90) and to its weekday
\* name; every (band, weekday) with rows has a cell, which is the mean energy
\* of those rows, and a cell of a combination without rows is 0.
C23_HeatmapCells ==
    "heatmap_matrix" \in ran =>
        /\ \A k \in 1..Len(merged_data) :
              /\ \A b \in Bands : df.rows[k].temp_range = b <=> InBand(b, merged_data[k].tmax_f)
              /\ df.rows[k].weekday = DayName(merged_data[k].date)
        /\ DOMAIN ResultOf("heatmap_matrix") \subseteq Bands \X WeekdayNames
        /\ \A b \in Bands, w \in WeekdayNames :
              IF CellRows(b, w) # {}
              THEN /\ <<b, w>> \in DOMAIN ResultOf("heatmap_matrix")
                   /\ ResultOf("heatmap_matrix")[<<b, w>>].num * Cardinality(CellRows(b, w))
                        = BatchEnergy(CellRows(b, w)) * ResultOf("heatmap_matrix")[<<b, w>>].den
              ELSE <<b, w>> \in DOMAIN ResultOf("heatmap_matrix") =>
                      ResultOf("heatmap_matrix")[<<b, w>>].num = 0

\* C23 witness: the single row at 65 degrees on a Monday with energy 500
\* gives exactly one cell that is not 0, ("60-70°F", "Monday") = 500.
C23_Witness ==
    /\ "heatmap_matrix" \in ran
    /\ merged_data = HeatmapExample
    /\ NonZeroCells = {<<"60-70°F", "Monday">>}
    /\ ResultOf("heatmap_matrix")[<<"60-70°F", "Monday">>].num
         = 500 * ResultOf("heatmap_matrix")[<<"60-70°F", "Monday">>].den

\* C24 (the claim as stated): every analysis function leaves the batch it is
\* given unchanged, no column added, renamed or retyped, and so returns what
\* it returns on the batch as it was read, whichever analyses ran before it.
C24_AnalysesArePure ==
    /\ df = Frame(merged_data)
    /\ \A f \in ran : ResultOf(f) = Analyse(f, Frame(merged_data)).result

====
